---- MODULE Spec2Model ----
(***************************************************************************)
(* State-machine model of class OpenTelemetry (src/src/opentelemetry.h):   *)
(* the bounded metric buffer, the span store, the JSON payload renderer    *)
(* and the export operations.  The HTTP client, the WiFi link, the clock   *)
(* and the random generator are the environment: every value they return   *)
(* is a nondeterministic input of the action that reads it.                *)
(***************************************************************************)
EXTENDS Integers, Sequences, FiniteSets, TLC

VARIABLES
    serviceName,        \* const char* serviceName
    serviceVersion,     \* const char* serviceVersion
    metricsEndpoint,    \* const char* metricsEndpoint
    tracesEndpoint,     \* const char* tracesEndpoint
    lastErrorMessage,   \* String lastErrorMessage
    lastHttpCode,       \* int lastHttpCode
    batchMetrics,       \* batchMetrics[0 .. metricCount-1]
    spans,              \* spans[0 .. spanCount-1]
    activeSpanCount,    \* uint8_t activeSpanCount
    currentTraceId,     \* uint64_t currentTraceId[2]
    randomSeeded,       \* static bool randomSeeded of generateRandomId
    randomSeedProvider, \* RandomSeedProviderFunc randomSeedProvider
    seedCalls,          \* the calls of a seed provider so far (observation)
    randomDrawn,        \* whether random(256) has been called (observation)
    last,               \* the most recent call and what it returned (observation)
    pre                 \* the object as it was when that call began

vars == <<serviceName, serviceVersion, metricsEndpoint, tracesEndpoint,
          lastErrorMessage, lastHttpCode, batchMetrics, spans,
          activeSpanCount, currentTraceId, randomSeeded, randomSeedProvider,
          seedCalls, randomDrawn, last, pre>>

-----------------------------------------------------------------------------
(* Program constants.                                                      *)

MAX_METRICS == 15
MAX_SPANS == 50
MAX_SPANS_PER_BATCH == 15
MAX_SPAN_ATTRS == 10
JsonBufferSize == 4096
SpanNameSize == 32
PendingRemoval == 1

OTEL_SERVICE_NAME == "m5stick-sensor"
OTEL_SERVICE_VERSION == "1.0.0"
OTEL_METRICS_URL == "http://192.168.1.81:4318/v1/metrics"
OTEL_TRACES_URL == "http://192.168.1.81:4318/v1/traces"
WIFI_SSID == "Morningwood-VLAN-24"

\* The functions a seed provider pointer can refer to: the default one and
\* two of the caller's.
defaultRandomSeedProvider == "defaultRandomSeedProvider"
CustomSeedProviders == {"hardwareSeed", "fixedSeed"}

\* A null const char* (no string of the model has this text).
NullPtr == "<nullptr>"

\* uint8_t arithmetic of the occupancy counters.
U8(n) == n % 256

-----------------------------------------------------------------------------
(* The object as one record, so that operations compose as functions.      *)

Obj ==
    [serviceName |-> serviceName, serviceVersion |-> serviceVersion,
     metricsEndpoint |-> metricsEndpoint, tracesEndpoint |-> tracesEndpoint,
     lastErrorMessage |-> lastErrorMessage, lastHttpCode |-> lastHttpCode,
     batchMetrics |-> batchMetrics, spans |-> spans,
     activeSpanCount |-> activeSpanCount, currentTraceId |-> currentTraceId,
     randomSeeded |-> randomSeeded, randomSeedProvider |-> randomSeedProvider,
     seedCalls |-> seedCalls, randomDrawn |-> randomDrawn,
     \* not a field of the code: whether this call has assigned lastErrorMessage
     errSet |-> FALSE,
     \* not a field of the code: the http.begin and http.end calls of this call
     httpCalls |-> <<>>]

\* An assignment to lastErrorMessage.
SetError(o, msg) == [o EXCEPT !.lastErrorMessage = msg, !.errSet = TRUE]

metricCount == Len(batchMetrics)
spanCount == Len(spans)

\* What pre keeps of the object: the buffers and the configuration.
Snapshot ==
    [batchMetrics |-> batchMetrics, spans |-> spans,
     activeSpanCount |-> activeSpanCount, currentTraceId |-> currentTraceId,
     metricsEndpoint |-> metricsEndpoint, tracesEndpoint |-> tracesEndpoint]

\* One call: the object it leaves behind and what the caller observed.
Commit(o, call) ==
    /\ serviceName' = o.serviceName
    /\ serviceVersion' = o.serviceVersion
    /\ metricsEndpoint' = o.metricsEndpoint
    /\ tracesEndpoint' = o.tracesEndpoint
    /\ lastErrorMessage' = o.lastErrorMessage
    /\ lastHttpCode' = o.lastHttpCode
    /\ batchMetrics' = o.batchMetrics
    /\ spans' = o.spans
    /\ activeSpanCount' = o.activeSpanCount
    /\ currentTraceId' = o.currentTraceId
    /\ randomSeeded' = o.randomSeeded
    /\ randomSeedProvider' = o.randomSeedProvider
    /\ seedCalls' = o.seedCalls
    /\ randomDrawn' = o.randomDrawn
    /\ last' = [op |-> call.op, arg |-> call.arg, ret |-> call.ret,
                posts |-> call.posts, errSet |-> o.errSet, http |-> o.httpCalls]
    /\ pre' = Snapshot

-----------------------------------------------------------------------------
(* C strings.  A string argument of a %s conversion contributes its        *)
(* length; %llu contributes the decimal digits of the number; %.2f of a    *)
(* double (modelled as a whole number) contributes its digits and ".00";   *)
(* %016llx contributes 16 hexadecimal digits.                              *)

StrLen(s) == Len(s)
FmtU64(n) == ToString(n)
FmtDouble(v) == ToString(v) \o ".00"
HexIdLen == 16

\* A string longer than the JSON buffer.
Chunk64 == "0123456789abcdef0123456789abcdef0123456789abcdef0123456789abcdef"
Chunk512 == Chunk64 \o Chunk64 \o Chunk64 \o Chunk64 \o Chunk64 \o Chunk64 \o Chunk64 \o Chunk64
LongString == Chunk512 \o Chunk512 \o Chunk512 \o Chunk512 \o Chunk512 \o Chunk512 \o Chunk512 \o Chunk512

\* The literal text of each format string, conversions removed.
TxtMetricsOpen == "{\"resourceMetrics\":[{\"resource\":{\"attributes\":["
TxtTracesOpen == "{\"resourceSpans\":[{\"resource\":{\"attributes\":["
TxtServiceName == "{\"key\":\"service.name\",\"value\":{\"stringValue\":\"\"}},"
TxtServiceVersion == "{\"key\":\"service.version\",\"value\":{\"stringValue\":\"\"}},"
TxtWifiSsid == "{\"key\":\"wifi.ssid\",\"value\":{\"stringValue\":\"\"}}"
TxtScopeMetrics == "]},\"scopeMetrics\":[{\"metrics\":["
TxtScopeSpans == "]},\"scopeSpans\":[{\"scope\":{\"name\":\"iototeldemo\"},\"spans\":["
TxtMetric == "{\"name\":\"\",\"gauge\":{\"dataPoints\":[{\"timeUnixNano\":\"\",\"asDouble\":}]}}"
TxtClose == "]}]}]}"
TxtSpanOpen == "{\"traceId\":\"\",\"spanId\":\"\","
TxtParent == "\"parentSpanId\":\"\","
TxtSpanBody == "\"name\":\"\",\"startTimeUnixNano\":\"\",\"endTimeUnixNano\":\"\",\"kind\":\"SPAN_KIND_INTERNAL\""
TxtAttrsOpen == ",\"attributes\":["
TxtAttrString == "{\"key\":\"\",\"value\":{\"stringValue\":\"\"}}"
TxtAttrDouble == "{\"key\":\"\",\"value\":{\"doubleValue\":}}"

appendToBufferNoTerminator(position, maxSize, written) ==
    IF written < 0 \/ written > maxSize - position
    THEN -1
    ELSE position + written

\* appendToBuffer: `written` is what vsnprintf returns; the write is refused
\* when it does not leave room for the terminating NUL.  The result is the
\* new position, or -1 for the refusal.
appendToBuffer(position, maxSize, written) ==
    IF written < 0 \/ written >= maxSize - position
    THEN -1
    ELSE position + written

\* One more appendToBuffer call of a render: a render returns false at the
\* first refused write, so a refusal (-1) stays a refusal.  The position is
\* bound once, whatever expression the caller passes.
Put(position, written) ==
    CHOOSE next \in {IF p < 0 THEN -1 ELSE appendToBuffer(p, JsonBufferSize, written) :
                        p \in {position}} : TRUE

-----------------------------------------------------------------------------
(* Metrics.                                                                *)

MetricPoint(n, v, ts) == [name |-> n, value |-> v, timestamp_nanos |-> ts]

\* createBatchPayload's loop over the metrics from index i.
RECURSIVE RenderMetrics(_, _, _)
RenderMetrics(ms, i, pos) ==
    IF i > Len(ms) \/ pos < 0 THEN pos
    ELSE RenderMetrics(ms, i + 1,
            Put(IF i > 1 THEN Put(pos, 1) ELSE pos,
                StrLen(TxtMetric) + StrLen(ms[i].name)
                + StrLen(FmtU64(ms[i].timestamp_nanos))
                + StrLen(FmtDouble(ms[i].value))))

\* createBatchPayload: the length of the document, or -1 when a write was
\* refused.
createBatchPayload(o) ==
    LET head == Put(Put(Put(Put(Put(0,
                    StrLen(TxtMetricsOpen)),
                    StrLen(TxtServiceName) + StrLen(o.serviceName)),
                    StrLen(TxtServiceVersion) + StrLen(o.serviceVersion)),
                    StrLen(TxtWifiSsid) + StrLen(WIFI_SSID)),
                    StrLen(TxtScopeMetrics))
    IN Put(RenderMetrics(o.batchMetrics, 1, head), StrLen(TxtClose))

\* What the environment answers during one call, each list consumed in
\* order: wifi = WiFi.isConnected() / WiFi.status() == WL_CONNECTED,
\* codes = the status of each http.POST, times = each timeProvider() value,
\* rnd = the eight random(256) bytes of each generateRandomId; body =
\* http.getString().
IO(wifi, codes, times, rnd, body) ==
    [wifi |-> wifi, codes |-> codes, times |-> times, rnd |-> rnd, body |-> body]

\* What a call reports: its name, argument, return value and the POSTs it
\* made (endpoint, status, what the payload carried).
Call(op, arg, ret, posts) == [op |-> op, arg |-> arg, ret |-> ret, posts |-> posts]
Post(endpoint, code, kind, items) ==
    [endpoint |-> endpoint, code |-> code, kind |-> kind, items |-> items]
\* The outcome of a function: the object, the return value, the POSTs made
\* and the environment answers not yet consumed.
Res(o, ret, posts, io) == [o |-> o, ret |-> ret, posts |-> posts, io |-> io]

Is2xx(code) == code >= 200 /\ code < 300

addMetricOffByOne(o, name, value, timestamp_nanos) ==
    IF Len(o.batchMetrics) > MAX_METRICS
    THEN [o |-> o, ret |-> FALSE]
    ELSE [o |-> [o EXCEPT !.batchMetrics =
                     Append(@, MetricPoint(name, value, timestamp_nanos))],
          ret |-> TRUE]

addMetric(o, name, value, timestamp_nanos) ==
    IF Len(o.batchMetrics) >= MAX_METRICS
    THEN [o |-> o, ret |-> FALSE]
    ELSE [o |-> [o EXCEPT !.batchMetrics =
                     Append(@, MetricPoint(name, value, timestamp_nanos))],
          ret |-> TRUE]

ResetMetricsCountOnFailureOnly(metrics, code) ==
    IF code >= 200 /\ code < 300 THEN metrics ELSE <<>>

\* sendMetrics' "Reset metrics count" after the POST, whatever its status.
ResetMetricsCount(metrics, code) == <<>>

sendMetrics(o, io) ==
    IF Len(o.batchMetrics) = 0
    THEN Res(SetError(o, "No metrics to send"), FALSE, <<>>, io)
    ELSE LET io1 == [io EXCEPT !.wifi = Tail(@)]
             io2 == [io1 EXCEPT !.wifi = Tail(@)]
             io3 == [io2 EXCEPT !.codes = Tail(@)]
         IN
         IF ~Head(io.wifi)
         THEN Res([SetError(o, "WiFi not connected") EXCEPT !.lastHttpCode = 0],
                  FALSE, <<>>, io1)
         ELSE IF createBatchPayload(o) < 0
         THEN Res(SetError(o, "Failed to create payload (buffer overflow)"),
                  FALSE, <<>>, io1)
         ELSE IF ~Head(io1.wifi)
         THEN Res([SetError(o, "WiFi disconnected before send") EXCEPT !.lastHttpCode = 0],
                  FALSE, <<>>, io2)
         ELSE LET code == Head(io2.codes)
                  msg == IF code < 200 \/ code >= 300
                         THEN IF StrLen(io.body) = 0
                              THEN "HTTP Error " \o ToString(code)
                              ELSE io.body
                         ELSE "None"
              IN Res([SetError(o, msg) EXCEPT
                        !.lastHttpCode = code,
                        !.httpCalls = @ \o <<"begin", "end">>,
                        !.batchMetrics = ResetMetricsCount(@, code)],
                     code >= 200 /\ code < 300,
                     <<Post(o.metricsEndpoint, code, "metrics", o.batchMetrics)>>,
                     io3)

-----------------------------------------------------------------------------
(* Spans.                                                                  *)

Min(a, b) == IF a < b THEN a ELSE b
Max(a, b) == IF a > b THEN a ELSE b

\* struct SpanAttribute, as the two addSpanAttribute overloads fill it.
StringAttribute(k, v) ==
    [key |-> k, stringValue |-> v, doubleValue |-> 0, isString |-> TRUE]
DoubleAttribute(k, v) ==
    [key |-> k, stringValue |-> NullPtr, doubleValue |-> v, isString |-> FALSE]

\* struct Span; attributeCount is Len(attributes).  uid is not a field of
\* the code: it names the stored object so that a span can be followed
\* through one call; no operation reads it.
Span(name, traceId, spanId, parentSpanId, startTimeNanos, uid) ==
    [name |-> name, traceId |-> traceId, spanId |-> spanId,
     parentSpanId |-> parentSpanId, startTimeNanos |-> startTimeNanos,
     endTimeNanos |-> 0, attributes |-> <<>>, isActive |-> TRUE, uid |-> uid]

\* The test sendTraces, createTracePayload and sendMetricsAndTraces use for
\* "completed".
IsCompleted(sp) == ~sp.isActive /\ sp.endTimeNanos > 0

CompletedCount(sps) == Cardinality({i \in 1..Len(sps) : IsCompleted(sps[i])})

RECURSIVE TotalAttributes(_, _)
TotalAttributes(sps, i) ==
    IF i > Len(sps) THEN 0
    ELSE (IF IsCompleted(sps[i]) THEN Len(sps[i].attributes) ELSE 0)
         + TotalAttributes(sps, i + 1)

SpansToSendAll(sps) == CompletedCount(sps)

\* The density cap without its floor of 3.
SpansToSendOfNoFloor(completedSpanCount, totalAttributes) ==
    IF totalAttributes > 15 * completedSpanCount
    THEN Min(Min(completedSpanCount, MAX_SPANS_PER_BATCH),
             (3000 \div 100) \div Max(1, totalAttributes \div completedSpanCount))
    ELSE Min(completedSpanCount, MAX_SPANS_PER_BATCH)

\* spansToSend as createTracePayload computes it from completedSpanCount
\* (at least 1 here) and totalAttributes.
SpansToSendOf(completedSpanCount, totalAttributes) ==
    LET capped == Min(completedSpanCount, MAX_SPANS_PER_BATCH)
        \* avgAttributesPerSpan > 15.0, and (int)avgAttributesPerSpan
        dense == totalAttributes > 15 * completedSpanCount
        avgInt == totalAttributes \div completedSpanCount
        maxAttributesInBatch == 3000 \div 100
        maxSpansToSend == Max(3, maxAttributesInBatch \div Max(1, avgInt))
    IN IF dense THEN Min(capped, maxSpansToSend) ELSE capped

\* The number of spans createTracePayload sets out to render.
SpansToSend(sps) == SpansToSendOf(CompletedCount(sps), TotalAttributes(sps, 1))

\* The attribute loop of one span from index j.
RECURSIVE RenderAttributes(_, _, _)
RenderAttributes(attrs, j, pos) ==
    IF j > Len(attrs) \/ pos < 0 THEN pos
    ELSE RenderAttributes(attrs, j + 1,
            Put(IF j > 1 THEN Put(pos, 1) ELSE pos,
                IF attrs[j].isString
                THEN StrLen(TxtAttrString) + StrLen(attrs[j].key)
                     + StrLen(attrs[j].stringValue)
                ELSE StrLen(TxtAttrDouble) + StrLen(attrs[j].key)
                     + StrLen(FmtDouble(attrs[j].doubleValue))))

\* The writes of one span of createTracePayload's loop.
RenderSpan(sp, firstSpan, pos) ==
    LET p1 == IF ~firstSpan THEN Put(pos, 1) ELSE pos
        p2 == Put(p1, StrLen(TxtSpanOpen) + 2 * HexIdLen + HexIdLen)
        p3 == IF sp.parentSpanId # 0 THEN Put(p2, StrLen(TxtParent) + HexIdLen) ELSE p2
        p4 == Put(p3, StrLen(TxtSpanBody) + StrLen(sp.name)
                      + StrLen(FmtU64(sp.startTimeNanos))
                      + StrLen(FmtU64(sp.endTimeNanos)))
        p5 == IF Len(sp.attributes) > 0
              THEN Put(RenderAttributes(sp.attributes, 1, Put(p4, StrLen(TxtAttrsOpen))), 1)
              ELSE p4
    IN Put(p5, 1)

\* What the payload says about one span.
SpanItem(sp) ==
    [uid |-> sp.uid, spanId |-> sp.spanId, traceId |-> sp.traceId,
     parentSpanId |-> sp.parentSpanId, name |-> sp.name,
     startTimeUnixNano |-> sp.startTimeNanos,
     endTimeUnixNano |-> sp.endTimeNanos,
     attributes |-> sp.attributes, isActive |-> sp.isActive]

\* The mark createTracePayload leaves on a span it has rendered.
MarkRendered(sp) == [sp EXCEPT !.endTimeNanos = PendingRemoval]

\* createTracePayload's loop over the store from index i: ok is FALSE when
\* a write was refused, sps carries the marks made so far.
RECURSIVE RenderSpans(_, _, _, _, _, _)
RenderSpans(sps, i, pos, spansSent, spansToSend, items) ==
    IF i > Len(sps) \/ spansSent >= spansToSend
    THEN [ok |-> TRUE, sps |-> sps, pos |-> pos, items |-> items]
    ELSE IF sps[i].isActive \/ sps[i].endTimeNanos = 0
    THEN RenderSpans(sps, i + 1, pos, spansSent, spansToSend, items)
    ELSE LET p == RenderSpan(sps[i], spansSent = 0, pos)
         IN IF p < 0
            THEN [ok |-> FALSE, sps |-> sps, pos |-> pos, items |-> items]
            ELSE RenderSpans([sps EXCEPT ![i] = MarkRendered(sps[i])], i + 1, p,
                             spansSent + 1, spansToSend,
                             Append(items, SpanItem(sps[i])))

\* createTracePayload: ok, the object (its spans marked as far as the
\* render got) and the spans the payload carries.
\* The outcome of createTracePayload once its loop is over: the closing
\* brackets are the last write.
PayloadOutcome(o, body) ==
    [ok |-> body.ok /\ Put(body.pos, StrLen(TxtClose)) >= 0,
     o |-> [o EXCEPT !.spans = body.sps],
     items |-> body.items]

TraceHeader(o) ==
    Put(Put(Put(Put(Put(0,
        StrLen(TxtTracesOpen)),
        StrLen(TxtServiceName) + StrLen(o.serviceName)),
        StrLen(TxtServiceVersion) + StrLen(o.serviceVersion)),
        StrLen(TxtWifiSsid) + StrLen(WIFI_SSID)),
        StrLen(TxtScopeSpans))

DefaultServiceNames(o) ==
    [o EXCEPT !.serviceName = IF @ = NullPtr THEN "default" ELSE @,
              !.serviceVersion = IF @ = NullPtr THEN "0.0.0" ELSE @]

createTracePayloadFrom(o, head) ==
    IF CompletedCount(o.spans) = 0 \/ head < 0
    THEN [ok |-> FALSE, o |-> o, items |-> <<>>]
    ELSE PayloadOutcome(o, RenderSpans(o.spans, 1, head, 0, SpansToSend(o.spans), <<>>))

createTracePayload(o) ==
    createTracePayloadFrom(DefaultServiceNames(o), TraceHeader(DefaultServiceNames(o)))

\* generateRandomId: eight random(256) bytes, most significant first; the
\* eight shifts fill the 64 bits of the id exactly, none is lost.
RECURSIVE IdFromBytes(_, _)
IdFromBytes(id, bytes) ==
    IF bytes = <<>> THEN id
    ELSE IdFromBytes(id * 256 + Head(bytes), Tail(bytes))

generateRandomIdReseeding(o, io) ==
    [o |-> [o EXCEPT !.randomSeeded = TRUE,
                     !.seedCalls = Append(@, [provider |-> o.randomSeedProvider,
                                              afterDraw |-> o.randomDrawn]),
                     !.randomDrawn = TRUE],
     id |-> IdFromBytes(0, Head(io.rnd)),
     io |-> [io EXCEPT !.rnd = Tail(@)]]

generateRandomId(o, io) ==
    [o |-> [o EXCEPT !.randomSeeded = TRUE,
                     !.seedCalls = IF o.randomSeeded THEN @
                                   ELSE Append(@, [provider |-> o.randomSeedProvider,
                                                   afterDraw |-> o.randomDrawn]),
                     !.randomDrawn = TRUE],
     id |-> IdFromBytes(0, Head(io.rnd)),
     io |-> [io EXCEPT !.rnd = Tail(@)]]

\* The span removeMarkedSpans drops.
IsMarked(sp) == ~sp.isActive /\ sp.endTimeNanos = 1

IsKept(sp) == ~IsMarked(sp)

removeMarkedSpans(o) == [o EXCEPT !.spans = SelectSeq(@, IsKept)]

\* sendTraces' "mark sent spans for cleanup": spanId = 0 on the first
\* MAX_SPANS_PER_BATCH completed spans, in store order.
RECURSIVE MarkForCleanup(_, _, _)
MarkForCleanup(sps, i, spansMoved) ==
    IF i > Len(sps) \/ spansMoved >= MAX_SPANS_PER_BATCH THEN sps
    ELSE IF IsCompleted(sps[i])
    THEN MarkForCleanup([sps EXCEPT ![i].spanId = 0], i + 1, spansMoved + 1)
    ELSE MarkForCleanup(sps, i + 1, spansMoved)

\* HTTPClient::errorToString: a text for the client's negative error codes,
\* empty for anything else.
ErrorToString(code) == IF code < 0 THEN "connection refused" ELSE ""

HasValidEndpoint(e) == e # NullPtr /\ StrLen(e) > 0

RECURSIVE sendTraces(_, _)

\* sendTraces after a 2xx status: the self-call for the spans still
\* completed, its result ignored.
sendTracesAgain(more, post) == Res(more.o, TRUE, <<post>> \o more.posts, more.io)

sendTracesSuccess(o, post, io) ==
    sendTracesAgain(IF CompletedCount(o.spans) > 0
                    THEN sendTraces(o, io)
                    ELSE Res(o, TRUE, <<>>, io),
                    post)

sendTracesPostOnly(o, httpCode, post, io) ==
    Res([o EXCEPT !.lastHttpCode = httpCode], Is2xx(httpCode), <<post>>, io)

sendTracesPostUnmarked(o, httpCode, post, io) ==
    IF httpCode >= 200 /\ httpCode < 300
    THEN Res([o EXCEPT !.lastHttpCode = httpCode], TRUE, <<post>>, io)
    ELSE Res(SetError([o EXCEPT !.lastHttpCode = httpCode], ErrorToString(httpCode)),
             FALSE, <<post>>, io)

\* sendTraces from its http.POST on.
sendTracesPost(o, httpCode, post, io) ==
    IF httpCode >= 200 /\ httpCode < 300
    THEN sendTracesSuccess(
            removeMarkedSpans([o EXCEPT !.lastHttpCode = httpCode,
                                        !.spans = MarkForCleanup(@, 1, 0)]),
            post, io)
    ELSE Res(SetError([o EXCEPT !.lastHttpCode = httpCode,
                                !.httpCalls = Append(@, "end")],
                      ErrorToString(httpCode)),
             FALSE, <<post>>, io)

sendTracesPayload(payload, endpoint, io) ==
    IF ~payload.ok
    THEN Res(SetError(payload.o, "Failed to create trace payload"), FALSE, <<>>, io)
    ELSE sendTracesPost([payload.o EXCEPT !.httpCalls = Append(@, "begin")],
                        Head(io.codes),
                        Post(endpoint, Head(io.codes), "traces", payload.items),
                        [io EXCEPT !.codes = Tail(@)])

\* A sendTraces that tests the endpoint before it looks for completed spans.
sendTracesEndpointFirst(o, io) ==
    IF ~HasValidEndpoint(o.tracesEndpoint)
    THEN Res(SetError(o, "No endpoint specified"), FALSE, <<>>, io)
    ELSE IF CompletedCount(o.spans) = 0
    THEN Res(o, TRUE, <<>>, io)
    ELSE sendTracesPayload(createTracePayload(o), o.tracesEndpoint, io)

sendTraces(o, io) ==
    IF CompletedCount(o.spans) = 0
    THEN Res(o, TRUE, <<>>, io)
    ELSE IF ~HasValidEndpoint(o.tracesEndpoint)
    THEN Res(SetError(o, "No endpoint specified"), FALSE, <<>>, io)
    ELSE sendTracesPayload(createTracePayload(o), o.tracesEndpoint, io)

RECURSIVE ForceEndAll(_, _, _, _)
ForceEndAll(o, i, activeEnded, io) ==
    IF i > Len(o.spans)
    THEN [o |-> o, activeEnded |-> activeEnded, io |-> io]
    ELSE IF o.spans[i].isActive
    THEN ForceEndAll([o EXCEPT !.spans[i].isActive = FALSE,
                               !.spans[i].endTimeNanos = Head(io.times),
                               !.activeSpanCount = U8(@ - 1)],
                     i + 1, activeEnded + 1, [io EXCEPT !.times = Tail(@)])
    ELSE ForceEndAll(o, i + 1, activeEnded, io)

\* A force-close that leaves activeSpanCount alone.
RECURSIVE ForceEndUncounted(_, _, _, _)
ForceEndUncounted(o, i, activeEnded, io) ==
    IF i > Len(o.spans) \/ ~(Len(o.spans) - activeEnded > MAX_SPANS \div 2)
    THEN [o |-> o, activeEnded |-> activeEnded, io |-> io]
    ELSE IF o.spans[i].isActive
    THEN ForceEndUncounted([o EXCEPT !.spans[i].isActive = FALSE,
                                     !.spans[i].endTimeNanos = Head(io.times)],
                           i + 1, activeEnded + 1, [io EXCEPT !.times = Tail(@)])
    ELSE ForceEndUncounted(o, i + 1, activeEnded, io)

\* cleanupOldSpans' force-close loop from index i.
RECURSIVE ForceEnd(_, _, _, _)
ForceEnd(o, i, activeEnded, io) ==
    IF i > Len(o.spans) \/ ~(Len(o.spans) - activeEnded > MAX_SPANS \div 2)
    THEN [o |-> o, activeEnded |-> activeEnded, io |-> io]
    ELSE IF o.spans[i].isActive
    THEN ForceEnd([o EXCEPT !.spans[i].isActive = FALSE,
                            !.spans[i].endTimeNanos = Head(io.times),
                            !.activeSpanCount = U8(@ - 1)],
                  i + 1, activeEnded + 1, [io EXCEPT !.times = Tail(@)])
    ELSE ForceEnd(o, i + 1, activeEnded, io)

IsActiveSpan(sp) == sp.isActive

\* cleanupOldSpans' last step: one more sendTraces if a span was force-closed.
cleanupResent(r, posts) == Res(r.o, TRUE, posts \o r.posts, r.io)

cleanupForced(f, posts) ==
    IF f.activeEnded > 0
    THEN cleanupResent(sendTraces(f.o, f.io), posts)
    ELSE Res(f.o, TRUE, posts, f.io)

\* cleanupOldSpans after it has dropped every span that is not active.
cleanupDropped(o, posts, io) ==
    IF ~(Len(o.spans) >= (MAX_SPANS * 80) \div 100)
    THEN Res(o, TRUE, posts, io)
    ELSE cleanupForced(ForceEnd(o, 1, 0, io), posts)

cleanupSentOnly(r) == Res(r.o, TRUE, r.posts, r.io)

\* cleanupOldSpans after its first sendTraces.
cleanupSent(r) ==
    IF ~(Len(r.o.spans) >= (MAX_SPANS * 60) \div 100)
    THEN Res(r.o, TRUE, r.posts, r.io)
    ELSE cleanupDropped([r.o EXCEPT !.spans = SelectSeq(@, IsActiveSpan)], r.posts, r.io)

\* No cleanup at all.
cleanupOldSpansNever(o, io) == Res(o, TRUE, <<>>, io)

cleanupOldSpans(o, io) ==
    IF ~(Len(o.spans) >= (MAX_SPANS * 60) \div 100)
    THEN Res(o, TRUE, <<>>, io)
    ELSE cleanupSent(sendTraces(o, io))

\* The name of the fresh stored object (see Span).
FreshUid(sps) ==
    CHOOSE u \in 1..(Len(sps) + 1) :
        /\ \A i \in 1..Len(sps) : sps[i].uid # u
        /\ \A v \in 1..(u - 1) : \E i \in 1..Len(sps) : sps[i].uid = v

\* strncpy(span.name, name, sizeof(span.name) - 1) and the terminating NUL.
CopyName(name) == SubSeq(name, 1, Min(StrLen(name), SpanNameSize - 1))

\* startSpan from the id on: the new span is stored at the end.
startSpanStore(g, name, parentSpanId, posts) ==
    Res([g.o EXCEPT !.spans = Append(@, Span(CopyName(name), g.o.currentTraceId, g.id,
                                             parentSpanId, Head(g.io.times),
                                             FreshUid(g.o.spans))),
                    !.activeSpanCount = U8(@ + 1)],
        g.id, posts, [g.io EXCEPT !.times = Tail(@)])

\* startSpan after the cleanup it may have run.
startSpanCleaned(c, name, parentSpanId) ==
    IF Len(c.o.spans) >= MAX_SPANS
    THEN Res(c.o, 0, c.posts, c.io)
    ELSE startSpanStore(generateRandomId(c.o, c.io), name, parentSpanId, c.posts)

startSpanNoCleanup(o, name, parentSpanId, io) ==
    startSpanCleaned(Res(o, TRUE, <<>>, io), name, parentSpanId)

startSpan(o, name, parentSpanId, io) ==
    startSpanCleaned(IF Len(o.spans) >= (MAX_SPANS * 3) \div 4
                     THEN cleanupOldSpans(o, io)
                     ELSE Res(o, TRUE, <<>>, io),
                     name, parentSpanId)

\* The index of the first stored span with this id, 0 when there is none.
FindSpan(sps, spanId) ==
    IF \E i \in 1..Len(sps) : sps[i].spanId = spanId
    THEN CHOOSE i \in 1..Len(sps) :
            /\ sps[i].spanId = spanId
            /\ \A j \in 1..(i - 1) : sps[j].spanId # spanId
    ELSE 0

addSpanAttributeToEnded(o, spanId, attr) ==
    IF spanId = 0 \/ FindSpan(o.spans, spanId) = 0
    THEN [o |-> o, ret |-> FALSE]
    ELSE IF Len(o.spans[FindSpan(o.spans, spanId)].attributes) >= MAX_SPAN_ATTRS
    THEN [o |-> o, ret |-> FALSE]
    ELSE [o |-> [o EXCEPT !.spans[FindSpan(o.spans, spanId)].attributes =
                              Append(@, attr)],
          ret |-> TRUE]

addSpanAttributeOffByOne(o, spanId, attr) ==
    IF spanId = 0 \/ FindSpan(o.spans, spanId) = 0
    THEN [o |-> o, ret |-> FALSE]
    ELSE IF ~o.spans[FindSpan(o.spans, spanId)].isActive
    THEN [o |-> o, ret |-> FALSE]
    ELSE IF Len(o.spans[FindSpan(o.spans, spanId)].attributes) > MAX_SPAN_ATTRS
    THEN [o |-> o, ret |-> FALSE]
    ELSE [o |-> [o EXCEPT !.spans[FindSpan(o.spans, spanId)].attributes =
                              Append(@, attr)],
          ret |-> TRUE]

\* Both addSpanAttribute overloads, attr being the attribute each builds.
addSpanAttribute(o, spanId, attr) ==
    LET i == FindSpan(o.spans, spanId)
    IN
    IF spanId = 0 THEN [o |-> o, ret |-> FALSE]
    ELSE IF i = 0 THEN [o |-> o, ret |-> FALSE]
    ELSE IF ~o.spans[i].isActive THEN [o |-> o, ret |-> FALSE]
    ELSE IF Len(o.spans[i].attributes) >= MAX_SPAN_ATTRS THEN [o |-> o, ret |-> FALSE]
    ELSE [o |-> [o EXCEPT !.spans[i].attributes = Append(@, attr)], ret |-> TRUE]

endSpanOldest(o, spanId, io) ==
    IF Len(o.spans) = 0
    THEN Res(o, FALSE, <<>>, io)
    ELSE Res([o EXCEPT !.spans[1].isActive = FALSE,
                       !.spans[1].endTimeNanos = Head(io.times)],
             TRUE, <<>>, [io EXCEPT !.times = Tail(@)])

endSpanAgain(o, spanId, io) ==
    IF spanId = 0 \/ FindSpan(o.spans, spanId) = 0
    THEN Res(o, FALSE, <<>>, io)
    ELSE Res([o EXCEPT !.spans[FindSpan(o.spans, spanId)].isActive = FALSE,
                       !.spans[FindSpan(o.spans, spanId)].endTimeNanos = Head(io.times)],
             TRUE, <<>>, [io EXCEPT !.times = Tail(@)])

\* An endSpan that also clears the attributes of the span it ends.
endSpanDroppingAttributes(o, spanId, io) ==
    IF spanId = 0 \/ FindSpan(o.spans, spanId) = 0
    THEN Res(o, FALSE, <<>>, io)
    ELSE IF ~o.spans[FindSpan(o.spans, spanId)].isActive
    THEN Res(o, FALSE, <<>>, io)
    ELSE Res([o EXCEPT !.spans[FindSpan(o.spans, spanId)].isActive = FALSE,
                       !.spans[FindSpan(o.spans, spanId)].endTimeNanos = Head(io.times),
                       !.spans[FindSpan(o.spans, spanId)].attributes = <<>>,
                       !.activeSpanCount = U8(@ - 1)],
             TRUE, <<>>, [io EXCEPT !.times = Tail(@)])

endSpan(o, spanId, io) ==
    LET i == FindSpan(o.spans, spanId)
    IN
    IF spanId = 0 THEN Res(o, FALSE, <<>>, io)
    ELSE IF i = 0 THEN Res(o, FALSE, <<>>, io)
    ELSE IF ~o.spans[i].isActive THEN Res(o, FALSE, <<>>, io)
    ELSE Res([o EXCEPT !.spans[i].isActive = FALSE,
                       !.spans[i].endTimeNanos = Head(io.times),
                       !.activeSpanCount = U8(@ - 1)],
             TRUE, <<>>, [io EXCEPT !.times = Tail(@)])

\* The trace id a stored span would show if it referred to currentTraceId.
Retagged(sps, traceId) == [i \in 1..Len(sps) |-> [sps[i] EXCEPT !.traceId = traceId]]

startNewTraceRetagging(o, io) ==
    Res([o EXCEPT
            !.randomSeeded = TRUE,
            !.currentTraceId = <<IdFromBytes(0, io.rnd[1]), IdFromBytes(0, io.rnd[2])>>,
            !.spans = Retagged(@, <<IdFromBytes(0, io.rnd[1]), IdFromBytes(0, io.rnd[2])>>)],
        TRUE, <<>>, [io EXCEPT !.rnd = Tail(Tail(@))])

startNewTrace(o, io) ==
    LET g1 == generateRandomId(o, io)
        g2 == generateRandomId(g1.o, g1.io)
    IN Res([g2.o EXCEPT !.currentTraceId = <<g1.id, g2.id>>], TRUE, <<>>, g2.io)

beginTraceEndpointUnchecked(o, svcName, svcVersion, metEndpoint, traceEndpoint, io) ==
    startNewTrace([o EXCEPT
                     !.serviceName = svcName,
                     !.serviceVersion = svcVersion,
                     !.metricsEndpoint = metEndpoint,
                     !.tracesEndpoint = IF traceEndpoint # NullPtr
                                        THEN traceEndpoint ELSE metEndpoint,
                     !.lastErrorMessage = "None",
                     !.errSet = TRUE,
                     !.lastHttpCode = 0,
                     !.batchMetrics = <<>>,
                     !.spans = <<>>,
                     !.activeSpanCount = 0], io)

begin(o, svcName, svcVersion, metEndpoint, traceEndpoint, io) ==
    LET o1 == [o EXCEPT
                 !.serviceName = svcName,
                 !.serviceVersion = svcVersion,
                 !.metricsEndpoint = metEndpoint,
                 !.tracesEndpoint = IF traceEndpoint # NullPtr /\ StrLen(traceEndpoint) > 0
                                    THEN traceEndpoint ELSE metEndpoint,
                 !.lastErrorMessage = "None",
                 !.errSet = TRUE,
                 !.lastHttpCode = 0,
                 !.batchMetrics = <<>>,
                 !.spans = <<>>,
                 !.activeSpanCount = 0]
    IN startNewTrace(o1, io)

sendMetricsAndTraces(o, io) ==
    LET io1 == [io EXCEPT !.wifi = Tail(@)]
        completedSpanCount == CompletedCount(o.spans)
        m == IF Len(o.batchMetrics) > 0
             THEN sendMetrics(o, io1)
             ELSE Res(o, TRUE, <<>>, io1)
        t == IF completedSpanCount > 0
             THEN sendTraces(m.o, m.io)
             ELSE Res(m.o, TRUE, <<>>, m.io)
    IN
    IF ~Head(io.wifi)
    THEN Res([SetError(o, "WiFi not connected") EXCEPT !.lastHttpCode = 0],
             FALSE, <<>>, io1)
    ELSE IF ~HasValidEndpoint(o.tracesEndpoint)
    THEN Res([SetError(o, "No endpoint specified") EXCEPT !.lastHttpCode = 0],
             FALSE, <<>>, io1)
    ELSE Res(t.o, m.ret /\ t.ret, m.posts \o t.posts, t.io)


\* getSpanStats: completed = spanCount - activeSpanCount, in uint8_t.
getSpanStatsCompleted(o) == U8(Len(o.spans) - o.activeSpanCount)

\* safeFlushTraces; nothing it calls throws, so its catch blocks are never
\* entered.
safeFlushTraces(o, io) ==
    IF ~HasValidEndpoint(o.tracesEndpoint)
    THEN Res(o, FALSE, <<>>, io)
    ELSE IF getSpanStatsCompleted(o) = 0
    THEN Res(o, TRUE, <<>>, io)
    ELSE sendTraces(o, io)

safeSendMetricsAndTraces(o, io) ==
    IF ~HasValidEndpoint(o.metricsEndpoint)
    THEN Res(o, FALSE, <<>>, io)
    ELSE IF ~HasValidEndpoint(o.tracesEndpoint)
    THEN Res(o, FALSE, <<>>, io)
    ELSE sendMetricsAndTraces(o, io)


\* setRandomSeedProvider: a null pointer restores the default provider.
setRandomSeedProvider(o, provider) ==
    [o EXCEPT !.randomSeedProvider =
                  IF provider # NullPtr THEN provider ELSE defaultRandomSeedProvider]

-----------------------------------------------------------------------------
(* The environment: the inputs of the calls and the answers of the HTTP    *)
(* client, the WiFi link, the clock and the random generator.              *)

HttpCodes == {-1, 199, 200, 299, 300}

\* An HTTP exchange: the status of http.POST and, read only after a
\* failure, what http.getString() returns.
Responses ==
    {[code |-> c, body |-> ""] : c \in HttpCodes}
    \cup {[code |-> 300, body |-> "unavailable"]}

\* n reads of the WiFi state.  Every function returns at the first read
\* that finds the link down, so the reads after it are never made.
WifiSeqs(n) == {[i \in 1..n |-> i <= k] : k \in 0..n}
WifiUp(n) == [i \in 1..n |-> TRUE]

\* The answers to a call that reads the WiFi state up to n times and makes
\* at most one POST: no POST is made once the link was found down.
OnePostIOs(n) ==
    {IO(w, <<>>, <<>>, <<>>, "") : w \in WifiSeqs(n) \ {WifiUp(n)}}
    \cup {IO(WifiUp(n), <<rp.code>>, <<>>, <<>>, rp.body) : rp \in Responses}

\* Metric samples: a plain one, and two others (one with a name longer than
\* the JSON buffer) of which the buffer holds at most MaxSpecialMetrics.
MaxSpecialMetrics == 1
PlainMetric == MetricPoint("temperature", 21, 1000)
OtherMetric == MetricPoint("humidity", 55, 2000)
LongMetric == MetricPoint(LongString, 1, 3000)
SpecialCount == Cardinality({i \in 1..Len(batchMetrics) : batchMetrics[i] # PlainMetric})
MetricInputs ==
    {PlainMetric} \cup
    (IF SpecialCount < MaxSpecialMetrics \/ Len(batchMetrics) >= MAX_METRICS
     THEN {OtherMetric, LongMetric} ELSE {})

NoIO == IO(<<>>, <<>>, <<>>, <<>>, "")

-----------------------------------------------------------------------------
(* The calls.                                                              *)

Init ==
    /\ serviceName = OTEL_SERVICE_NAME
    /\ serviceVersion = OTEL_SERVICE_VERSION
    /\ metricsEndpoint = OTEL_METRICS_URL
    /\ tracesEndpoint = OTEL_TRACES_URL
    /\ lastErrorMessage = ""
    /\ lastHttpCode = 0
    /\ batchMetrics = <<>>
    /\ spans = <<>>
    /\ activeSpanCount = 0
    /\ currentTraceId = <<0, 0>>
    /\ randomSeeded = FALSE
    /\ randomSeedProvider = defaultRandomSeedProvider
    /\ seedCalls = <<>>
    /\ randomDrawn = FALSE
    /\ last = [op |-> "construct", arg |-> 0, ret |-> TRUE, posts |-> <<>>,
               errSet |-> FALSE, http |-> <<>>]
    /\ pre = Snapshot

AddMetric ==
    \E m \in MetricInputs :
        \E r \in {addMetric(Obj, m.name, m.value, m.timestamp_nanos)} :
           Commit(r.o, Call("addMetric", m, r.ret, <<>>))

SendMetrics ==
    \E io \in OnePostIOs(2) :
        \E r \in {sendMetrics(Obj, io)} :
           Commit(r.o, Call("sendMetrics", 0, r.ret, r.posts))

NextMetrics ==
    \/ AddMetric
    \/ SendMetrics

SpecMetrics == Init /\ [][NextMetrics]_vars

-----------------------------------------------------------------------------
(* The span store: the calls of the tracing interface.                     *)

\* The spans a caller keeps in the store at once.
MaxStore == 2

\* Identifiers: the last of the eight random bytes (the others 0), so the
\* ids drawn are 0 (the "invalid" id), 1 and 2, and two draws can agree.
IdBytes == {0, 1, 2}
RandomBytes == {<<0, 0, 0, 0, 0, 0, 0, b>> : b \in IdBytes}
IdArgs == {IdFromBytes(0, bs) : bs \in RandomBytes}

\* What the time provider returns when a span ends: 0 (the "still open"
\* value of endTimeNanos), 1 (the removal mark), the time the span started
\* at and a later time.
StartTimes == {2}
TimeValues == {0, 1, 2, 3}

SpanNames == {"read-sensor"}
ParentIds == {0}

\* The POST statuses of one sendTraces of n cycles at most: a cycle follows
\* only a successful one.
RECURSIVE TraceCodeSeqs(_)
TraceCodeSeqs(n) ==
    IF n = 0 THEN {<<>>}
    ELSE {<<c>> : c \in {c \in HttpCodes : ~Is2xx(c)}}
         \cup {<<c>> \o rest : c \in {c \in HttpCodes : Is2xx(c)},
                               rest \in TraceCodeSeqs(n - 1)}

\* Each successful cycle removes the spans it rendered, MAX_SPANS_PER_BATCH
\* of them while that many are left.
NeededPosts(sps) ==
    (CompletedCount(sps) + MAX_SPANS_PER_BATCH - 1) \div MAX_SPANS_PER_BATCH

StartSpan ==
    /\ spanCount < MaxStore
    /\ \E name \in SpanNames, parent \in ParentIds, bs \in RandomBytes, t \in StartTimes :
          \E r \in {startSpan(Obj, name, parent, IO(<<>>, <<>>, <<t>>, <<bs>>, ""))} :
             Commit(r.o, Call("startSpan", [name |-> name, parentSpanId |-> parent],
                              r.ret, r.posts))

EndSpan ==
    \E id \in IdArgs, t \in TimeValues :
        \E r \in {endSpan(Obj, id, IO(<<>>, <<>>, <<t>>, <<>>, ""))} :
           Commit(r.o, Call("endSpan", id, r.ret, r.posts))

SendTraces ==
    \E codes \in TraceCodeSeqs(NeededPosts(spans)) :
        \E r \in {sendTraces(Obj, IO(<<>>, codes, <<>>, <<>>, ""))} :
           Commit(r.o, Call("sendTraces", 0, r.ret, r.posts))

Next ==
    \/ StartSpan
    \/ EndSpan
    \/ SendTraces

Spec == Init /\ [][Next]_vars

-----------------------------------------------------------------------------
(* One traced operation and its attributes.                                *)

\* What the two addSpanAttribute overloads are called with.
AttrInputs ==
    {StringAttribute("sensor.type", "SHT30"), DoubleAttribute("temperature", 21)}

\* The id of the one span of this specification, and an id no span has.
OperationBytes == <<0, 0, 0, 0, 0, 0, 0, 1>>
OperationIds == {IdFromBytes(0, OperationBytes), IdFromBytes(0, OperationBytes) + 1}

StartOperation ==
    /\ spanCount = 0
    /\ \E name \in SpanNames :
          \E r \in {startSpan(Obj, name, 0, IO(<<>>, <<>>, <<2>>, <<OperationBytes>>, ""))} :
             Commit(r.o, Call("startSpan", [name |-> name, parentSpanId |-> 0],
                              r.ret, r.posts))

AddSpanAttribute ==
    \E id \in OperationIds, attr \in AttrInputs :
        \E r \in {addSpanAttribute(Obj, id, attr)} :
           Commit(r.o, Call("addSpanAttribute", [spanId |-> id, attr |-> attr],
                            r.ret, <<>>))

EndOperation ==
    \E id \in OperationIds :
        \E r \in {endSpan(Obj, id, IO(<<>>, <<>>, <<3>>, <<>>, ""))} :
           Commit(r.o, Call("endSpan", id, r.ret, r.posts))

NextAttrs ==
    \/ StartOperation
    \/ AddSpanAttribute
    \/ EndOperation

SpecAttrs == Init /\ [][NextAttrs]_vars

-----------------------------------------------------------------------------
(* References to spans: one traced operation, calls with its id, with id 0 *)
(* and with an id no span has, before and after the span is exported.      *)

RefIds == {0} \cup OperationIds
RefAttrs == {StringAttribute("sensor.type", "SHT30")}

AddSpanAttributeAt ==
    \E id \in RefIds, attr \in RefAttrs :
        \E r \in {addSpanAttribute(Obj, id, attr)} :
           Commit(r.o, Call("addSpanAttribute", [spanId |-> id, attr |-> attr],
                            r.ret, <<>>))

EndSpanAt ==
    \E id \in RefIds :
        \E r \in {endSpan(Obj, id, IO(<<>>, <<>>, <<3>>, <<>>, ""))} :
           Commit(r.o, Call("endSpan", id, r.ret, r.posts))

ExportOperation ==
    \E c \in HttpCodes :
        \E r \in {sendTraces(Obj, IO(<<>>, <<c>>, <<>>, <<>>, ""))} :
           Commit(r.o, Call("sendTraces", 0, r.ret, r.posts))

NextRefs ==
    \/ StartOperation
    \/ AddSpanAttributeAt
    \/ EndSpanAt
    \/ ExportOperation

SpecRefs == Init /\ [][NextRefs]_vars

-----------------------------------------------------------------------------
(* A store that outgrows one batch: more completed spans than               *)
(* MAX_SPANS_PER_BATCH, with a caller that keeps few spans open, draws ids  *)
(* that differ from the stored ones and reads a clock that moves.           *)

\* The spans in the store at once.
MaxBatchStore == 17

\* The spans open at once.
MaxOpen == 2

BatchCodes == {-1, 200}

\* The smallest id byte no stored span has.
FreshByte(sps) ==
    CHOOSE b \in 1..(Len(sps) + 1) :
        /\ \A i \in 1..Len(sps) : sps[i].spanId # b
        /\ \A c \in 1..(b - 1) : \E i \in 1..Len(sps) : sps[i].spanId = c

RECURSIVE BatchCodeSeqs(_)
BatchCodeSeqs(n) ==
    IF n = 0 THEN {<<>>}
    ELSE {<<c>> : c \in {c \in BatchCodes : ~Is2xx(c)}}
         \cup {<<c>> \o rest : c \in {c \in BatchCodes : Is2xx(c)},
                               rest \in BatchCodeSeqs(n - 1)}

StartSpanFresh ==
    /\ spanCount < MaxBatchStore
    /\ activeSpanCount < MaxOpen
    /\ \E name \in SpanNames :
          \E r \in {startSpan(Obj, name, 0,
                              IO(<<>>, <<>>, <<2>>,
                                 <<<<0, 0, 0, 0, 0, 0, 0, FreshByte(spans)>>>>, ""))} :
             Commit(r.o, Call("startSpan", [name |-> name, parentSpanId |-> 0],
                              r.ret, r.posts))

EndSpanOpen ==
    \E id \in {spans[i].spanId : i \in {i \in 1..Len(spans) : spans[i].isActive}} :
        \E r \in {endSpan(Obj, id, IO(<<>>, <<>>, <<3>>, <<>>, ""))} :
           Commit(r.o, Call("endSpan", id, r.ret, r.posts))

SendTracesBatch ==
    /\ CompletedCount(spans) >= MAX_SPANS_PER_BATCH
    /\ \E codes \in BatchCodeSeqs(NeededPosts(spans)) :
          \E r \in {sendTraces(Obj, IO(<<>>, codes, <<>>, <<>>, ""))} :
             Commit(r.o, Call("sendTraces", 0, r.ret, r.posts))

NextBatch ==
    \/ StartSpanFresh
    \/ EndSpanOpen
    \/ SendTracesBatch

SpecBatch == Init /\ [][NextBatch]_vars

-----------------------------------------------------------------------------
(* A store that fills up: a caller that starts spans with growing ids and  *)
(* ends them oldest first, so that startSpan runs the cleanup cascade.     *)

\* The ids the caller's generator hands out: 1, 2, ... up to this one.
MaxSpanId == 41

\* The id after the greatest stored one.
NextId(sps) ==
    IF Len(sps) = 0 THEN 1
    ELSE 1 + CHOOSE m \in {sps[i].spanId : i \in 1..Len(sps)} :
                 \A i \in 1..Len(sps) : sps[i].spanId <= m

\* The POSTs one cleanupOldSpans can make: the drain of a store of fewer
\* than MAX_SPANS spans, and the one after the force-close.
CascadePosts == (MAX_SPANS \div MAX_SPANS_PER_BATCH) + 2

RECURSIVE CodeSeqsOfLen(_)
CodeSeqsOfLen(n) ==
    IF n = 0 THEN {<<>>}
    ELSE {<<c>> \o rest : c \in BatchCodes, rest \in CodeSeqsOfLen(n - 1)}

\* A clock that stands still during one call: n reads of t.
Clock(t, n) == [i \in 1..n |-> t]

\* The index of the oldest Active span.
OldestActive(sps) ==
    {i \in 1..Len(sps) :
        sps[i].isActive /\ \A j \in 1..(i - 1) : ~sps[j].isActive}

\* The statuses startSpan can read: none below the cleanup threshold.
CascadeCodeSeqs(sps) ==
    IF Len(sps) >= (MAX_SPANS * 3) \div 4
    THEN CodeSeqsOfLen(CascadePosts)
    ELSE {<<>>}

StartSpanLeaky ==
    /\ NextId(spans) <= MaxSpanId
    /\ \E name \in SpanNames, codes \in CascadeCodeSeqs(spans) :
          \E r \in {startSpan(Obj, name, 0,
                              IO(<<>>, codes, Clock(2, MAX_SPANS),
                                 <<<<0, 0, 0, 0, 0, 0, 0, NextId(spans)>>>>, ""))} :
             Commit(r.o, Call("startSpan", [name |-> name, parentSpanId |-> 0],
                              r.ret, r.posts))

EndSpanOldest ==
    \E i \in OldestActive(spans) :
        \E r \in {endSpan(Obj, spans[i].spanId, IO(<<>>, <<>>, <<3>>, <<>>, ""))} :
           Commit(r.o, Call("endSpan", spans[i].spanId, r.ret, r.posts))

NextCascade ==
    \/ StartSpanLeaky
    \/ EndSpanOldest

SpecCascade == Init /\ [][NextCascade]_vars

-----------------------------------------------------------------------------
(* A caller that queues readings and one operation's span and exports both *)
(* with sendMetricsAndTraces.                                              *)

\* The readings the caller queues between two exports.
MaxQueued == 2

AddReading ==
    /\ Len(batchMetrics) < MaxQueued
    /\ \E r \in {addMetric(Obj, PlainMetric.name, PlainMetric.value,
                            PlainMetric.timestamp_nanos)} :
          Commit(r.o, Call("addMetric", PlainMetric, r.ret, <<>>))

\* The answers to sendMetricsAndTraces: its own read of the WiFi state and
\* the two of sendMetrics, and a status for each POST it can make.
AllIOs ==
    {IO(w, <<c1, c2>>, <<>>, <<>>, "") :
        w \in WifiSeqs(3), c1 \in HttpCodes, c2 \in HttpCodes}

SendMetricsAndTraces ==
    \E io \in AllIOs :
        \E r \in {sendMetricsAndTraces(Obj, io)} :
           Commit(r.o, Call("sendMetricsAndTraces", 0, r.ret, r.posts))

NextAll ==
    \/ AddReading
    \/ StartOperation
    \/ EndOperation
    \/ SendMetricsAndTraces

SpecAll == Init /\ [][NextAll]_vars

-----------------------------------------------------------------------------
(* Documents as long as the JSON buffer: a caller whose metric names and   *)
(* attribute values make the payload end just below, at and just above the *)
(* end of jsonBuffer.                                                      *)

\* The characters the writes of createBatchPayload's loop produce for the
\* metrics from index i, were none of them refused.
RECURSIVE MetricsLength(_, _)
MetricsLength(ms, i) ==
    IF i > Len(ms) THEN 0
    ELSE (IF i > 1 THEN 1 ELSE 0)
         + StrLen(TxtMetric) + StrLen(ms[i].name)
         + StrLen(FmtU64(ms[i].timestamp_nanos)) + StrLen(FmtDouble(ms[i].value))
         + MetricsLength(ms, i + 1)

\* strlen of the whole metrics document.
BatchDocumentLength(o) ==
    StrLen(TxtMetricsOpen)
    + StrLen(TxtServiceName) + StrLen(o.serviceName)
    + StrLen(TxtServiceVersion) + StrLen(o.serviceVersion)
    + StrLen(TxtWifiSsid) + StrLen(WIFI_SSID)
    + StrLen(TxtScopeMetrics)
    + MetricsLength(o.batchMetrics, 1)
    + StrLen(TxtClose)

RECURSIVE AttributesLength(_, _)
AttributesLength(attrs, j) ==
    IF j > Len(attrs) THEN 0
    ELSE (IF j > 1 THEN 1 ELSE 0)
         + (IF attrs[j].isString
            THEN StrLen(TxtAttrString) + StrLen(attrs[j].key) + StrLen(attrs[j].stringValue)
            ELSE StrLen(TxtAttrDouble) + StrLen(attrs[j].key)
                 + StrLen(FmtDouble(attrs[j].doubleValue)))
         + AttributesLength(attrs, j + 1)

\* The characters of one span of the trace document.
SpanLength(sp) ==
    StrLen(TxtSpanOpen) + 2 * HexIdLen + HexIdLen
    + (IF sp.parentSpanId # 0 THEN StrLen(TxtParent) + HexIdLen ELSE 0)
    + StrLen(TxtSpanBody) + StrLen(sp.name)
    + StrLen(FmtU64(sp.startTimeNanos)) + StrLen(FmtU64(sp.endTimeNanos))
    + (IF Len(sp.attributes) > 0
       THEN StrLen(TxtAttrsOpen) + AttributesLength(sp.attributes, 1) + 1
       ELSE 0)
    + 1

RECURSIVE SpansLength(_, _)
SpansLength(sps, i) ==
    IF i > Len(sps) THEN 0
    ELSE (IF i > 1 THEN 1 ELSE 0) + SpanLength(sps[i]) + SpansLength(sps, i + 1)

\* The spans createTracePayload sets out to render: the first spansToSend
\* completed ones, in store order.
SelectedSpans(sps) ==
    SubSeq(SelectSeq(sps, IsCompleted), 1, SpansToSend(sps))

\* strlen of the whole trace document.
TraceDocumentLength(o) ==
    StrLen(TxtTracesOpen)
    + StrLen(TxtServiceName) + StrLen(o.serviceName)
    + StrLen(TxtServiceVersion) + StrLen(o.serviceVersion)
    + StrLen(TxtWifiSsid) + StrLen(WIFI_SSID)
    + StrLen(TxtScopeSpans)
    + SpansLength(SelectedSpans(o.spans), 1)
    + StrLen(TxtClose)

\* A string of n characters.
Filler(n) == SubSeq(LongString, 1, n)

\* The caller's strings end the document this many characters before and
\* after the last position that fits.
MaxFill == 1

FillLengths(room) ==
    {n \in (room - MaxFill)..(room + MaxFill) : n >= 0 /\ n <= Len(LongString)}

\* The longest name the next metric can have for the document to fit:
\* the document and its terminating NUL take JsonBufferSize bytes.
MetricRoom ==
    JsonBufferSize - 1
    - BatchDocumentLength([Obj EXCEPT !.batchMetrics =
                              Append(@, MetricPoint("", PlainMetric.value,
                                                    PlainMetric.timestamp_nanos))])

AddFillMetric ==
    /\ Len(batchMetrics) < MaxQueued
    /\ \E n \in FillLengths(MetricRoom) :
          \E r \in {addMetric(Obj, Filler(n), PlainMetric.value,
                               PlainMetric.timestamp_nanos)} :
             Commit(r.o, Call("addMetric", n, r.ret, <<>>))

\* The store once its spans are ended and the last one got one more
\* attribute with an empty value.
EndedWithAttribute(sps) ==
    [i \in 1..Len(sps) |->
        [sps[i] EXCEPT !.isActive = FALSE, !.endTimeNanos = 3,
                       !.attributes = IF i = Len(sps)
                                      THEN Append(@, StringAttribute("sensor.type", ""))
                                      ELSE @]]

AttributeRoom ==
    JsonBufferSize - 1
    - TraceDocumentLength([Obj EXCEPT !.spans = EndedWithAttribute(@)])

AddFillAttribute ==
    /\ spanCount > 0
    /\ Len(spans[spanCount].attributes) < MaxQueued
    /\ \E id \in OperationIds, n \in FillLengths(AttributeRoom) :
          \E r \in {addSpanAttribute(Obj, id, StringAttribute("sensor.type", Filler(n)))} :
             Commit(r.o, Call("addSpanAttribute", [spanId |-> id, attr |-> n],
                              r.ret, <<>>))

NextRender ==
    \/ AddFillMetric
    \/ SendMetrics
    \/ StartOperation
    \/ AddFillAttribute
    \/ EndOperation
    \/ ExportOperation

SpecRender == Init /\ [][NextRender]_vars

-----------------------------------------------------------------------------
(* The same caller over a transport that always succeeds, exporting again  *)
(* and again.                                                              *)

DeliveredCodes == {c \in HttpCodes : Is2xx(c)}

ExportDelivered ==
    \E c \in DeliveredCodes :
        \E r \in {sendTraces(Obj, IO(<<>>, <<c>>, <<>>, <<>>, ""))} :
           Commit(r.o, Call("sendTraces", 0, r.ret, r.posts))

NextRetry ==
    \/ StartOperation
    \/ AddFillAttribute
    \/ EndOperation
    \/ ExportDelivered

\* The caller keeps calling sendTraces for as long as a call changes
\* anything.
SpecRetry == Init /\ [][NextRetry]_vars /\ WF_vars(ExportDelivered)

-----------------------------------------------------------------------------
(* A caller that starts new traces between its spans.                      *)

\* The two draws of a new trace id.
TraceIdDraws == {<<b, OperationBytes>> : b \in RandomBytes}

StartNewTrace ==
    \E draws \in TraceIdDraws :
        \E r \in {startNewTrace(Obj, IO(<<>>, <<>>, <<>>, draws, ""))} :
           Commit(r.o, Call("startNewTrace", 0, r.ret, r.posts))

StartTracedSpan ==
    /\ spanCount < MaxStore
    /\ \E name \in SpanNames :
          \E r \in {startSpan(Obj, name, 0,
                              IO(<<>>, <<>>, <<2>>,
                                 <<<<0, 0, 0, 0, 0, 0, 0, FreshByte(spans)>>>>, ""))} :
             Commit(r.o, Call("startSpan", [name |-> name, parentSpanId |-> 0],
                              r.ret, r.posts))

NextTrace ==
    \/ StartNewTrace
    \/ StartTracedSpan
    \/ EndSpanOpen
    \/ ExportOperation

SpecTrace == Init /\ [][NextTrace]_vars

-----------------------------------------------------------------------------
(* A caller that configures the object with begin and exports through the  *)
(* safe wrappers.                                                          *)

\* What begin is called with as endpoints: a null pointer, an empty string
\* and a URL.
MetricsEndpointArgs == {NullPtr, "", OTEL_METRICS_URL}
TracesEndpointArgs == {NullPtr, "", OTEL_TRACES_URL}

Begin ==
    \E met \in MetricsEndpointArgs, tr \in TracesEndpointArgs :
        \E r \in {begin(Obj, OTEL_SERVICE_NAME, OTEL_SERVICE_VERSION, met, tr,
                         IO(<<>>, <<>>, <<>>, <<OperationBytes, OperationBytes>>, ""))} :
           Commit(r.o, Call("begin", [metEndpoint |-> met, traceEndpoint |-> tr],
                            r.ret, r.posts))

SafeFlushTraces ==
    \E c \in HttpCodes :
        \E r \in {safeFlushTraces(Obj, IO(<<>>, <<c>>, <<>>, <<>>, ""))} :
           Commit(r.o, Call("safeFlushTraces", 0, r.ret, r.posts))

SafeSendMetricsAndTraces ==
    \E io \in AllIOs :
        \E r \in {safeSendMetricsAndTraces(Obj, io)} :
           Commit(r.o, Call("safeSendMetricsAndTraces", 0, r.ret, r.posts))

NextBegin ==
    \/ Begin
    \/ AddReading
    \/ StartOperation
    \/ EndOperation
    \/ SafeFlushTraces
    \/ SafeSendMetricsAndTraces

SpecBegin == Init /\ [][NextBegin]_vars

-----------------------------------------------------------------------------
(* The count computed at the head of createTracePayload, as a function of  *)
(* its two inputs.                                                         *)

\* The greatest average number of attributes per completed span tried.
MaxAverage == 31

\* completedSpanCount is at least 1 where spansToSend is computed and at
\* most MAX_SPANS; totalAttributes is a sum of attributeCount fields.
DensityInputs ==
    {in \in (1..MAX_SPANS) \X (0..(MaxAverage * MAX_SPANS)) :
        in[2] <= MaxAverage * in[1]}

\* The object as constructed, and the two inputs of the computation.
InitDensity ==
    /\ serviceName = OTEL_SERVICE_NAME
    /\ serviceVersion = OTEL_SERVICE_VERSION
    /\ metricsEndpoint = OTEL_METRICS_URL
    /\ tracesEndpoint = OTEL_TRACES_URL
    /\ lastErrorMessage = ""
    /\ lastHttpCode = 0
    /\ batchMetrics = <<>>
    /\ spans = <<>>
    /\ activeSpanCount = 0
    /\ currentTraceId = <<0, 0>>
    /\ randomSeeded = FALSE
    /\ randomSeedProvider = defaultRandomSeedProvider
    /\ seedCalls = <<>>
    /\ randomDrawn = FALSE
    /\ \E in \in DensityInputs :
          last = [op |-> "inputs",
                  arg |-> [completedSpanCount |-> in[1], totalAttributes |-> in[2]],
                  ret |-> TRUE, posts |-> <<>>, errSet |-> FALSE, http |-> <<>>]
    /\ pre = Snapshot

ComputeSpansToSend ==
    /\ last.op = "inputs"
    /\ Commit(Obj, Call("spansToSend", last.arg,
                        SpansToSendOf(last.arg.completedSpanCount,
                                      last.arg.totalAttributes), <<>>))

NextDensity == ComputeSpansToSend

SpecDensity == InitDensity /\ [][NextDensity]_vars

-----------------------------------------------------------------------------
(* Spans that carry as many attributes as addSpanAttribute accepts.        *)

AddAttributeOpen ==
    \E id \in {spans[i].spanId : i \in {i \in 1..Len(spans) : spans[i].isActive}} :
        \E r \in {addSpanAttribute(Obj, id, StringAttribute("sensor.type", "SHT30"))} :
           Commit(r.o, Call("addSpanAttribute", id, r.ret, <<>>))

NextDense ==
    \/ StartTracedSpan
    \/ AddAttributeOpen
    \/ EndSpanOpen
    \/ ExportOperation

SpecDense == Init /\ [][NextDense]_vars

-----------------------------------------------------------------------------
(* A caller that fills the store up to the cleanup threshold of startSpan  *)
(* and from there on starts spans and ends the oldest one; the exports are *)
(* those of the cleanup, with every transport outcome.                     *)

\* The greatest span id handed out.
MaxCapacityId == 43

\* The statuses the cleanup of startSpan can read: those of the drain of
\* its first sendTraces, which stops at the first failure, and one more
\* for the sendTraces after a force-close.
NearCapacityCodeSeqs(sps) ==
    IF Len(sps) >= (MAX_SPANS * 3) \div 4
    THEN {d \o <<c>> : d \in BatchCodeSeqs(NeededPosts(sps)), c \in BatchCodes}
    ELSE {<<>>}

StartSpanNearCapacity ==
    /\ NextId(spans) <= MaxCapacityId
    /\ \E name \in SpanNames, codes \in NearCapacityCodeSeqs(spans) :
          \E r \in {startSpan(Obj, name, 0,
                              IO(<<>>, codes, Clock(2, MAX_SPANS),
                                 <<<<0, 0, 0, 0, 0, 0, 0, NextId(spans)>>>>, ""))} :
             Commit(r.o, Call("startSpan", [name |-> name, parentSpanId |-> 0],
                              r.ret, r.posts))

EndSpanNearCapacity ==
    /\ spanCount >= (MAX_SPANS * 3) \div 4
    /\ EndSpanOldest

NextCapacity ==
    \/ StartSpanNearCapacity
    \/ EndSpanNearCapacity

SpecCapacity == Init /\ [][NextCapacity]_vars

-----------------------------------------------------------------------------
(* A caller that installs seed providers at any time between the calls     *)
(* that generate identifiers.                                              *)

SetRandomSeedProvider ==
    \E provider \in CustomSeedProviders \cup {NullPtr} :
        \E o \in {setRandomSeedProvider(Obj, provider)} :
           Commit(o, Call("setRandomSeedProvider", provider, TRUE, <<>>))

NextSeed ==
    \/ SetRandomSeedProvider
    \/ StartNewTrace
    \/ StartOperation
    \/ EndOperation
    \/ ExportOperation

SpecSeed == Init /\ [][NextSeed]_vars

-----------------------------------------------------------------------------
(* A caller that configures the endpoints with begin and exports one       *)
(* operation's span with sendTraces.                                       *)

NextEndpoint ==
    \/ Begin
    \/ StartOperation
    \/ EndOperation
    \/ ExportOperation

SpecEndpoint == Init /\ [][NextEndpoint]_vars









-----------------------------------------------------------------------------
(* The metric buffer.                                                      *)

\* The newest call was sendMetrics and it made its POST.
SentMetrics == last.op = "sendMetrics" /\ Len(last.posts) = 1
SentMetricsOk == SentMetrics /\ Is2xx(last.posts[1].code)
SentMetricsFailed == SentMetrics /\ ~Is2xx(last.posts[1].code)

\* C1: a sendMetrics whose POST ends in a transport failure (a status
\* outside 200..299, or a connection error) leaves metricCount and every
\* buffered sample as they were before the call.
C1_TransportFailureKeepsBuffer ==
    SentMetricsFailed => batchMetrics = pre.batchMetrics

\* C2: after 1 to MAX_METRICS accepted addMetric calls, a sendMetrics whose
\* POST returns a 2xx status leaves the metric buffer empty, and the next
\* addMetric, which a full buffer rejected before the export, is accepted.
C2_SuccessEmptiesBuffer ==
    /\ [](SentMetricsOk =>
            /\ metricCount = 0
            /\ Len(pre.batchMetrics) \in 1..MAX_METRICS
            /\ last.ret = TRUE
            /\ last.posts[1].items = pre.batchMetrics)
    /\ [][(SentMetricsOk /\ last'.op = "addMetric") =>
            (last'.ret = TRUE /\ batchMetrics' = <<last'.arg>>)]_vars

C2_Witness ==
    SentMetricsOk /\ Len(pre.batchMetrics) = MAX_METRICS /\ metricCount = 0

\* C3: addMetric is rejected, the buffer unchanged, exactly when the buffer
\* already holds MAX_METRICS samples; otherwise it appends the sample at the
\* end and returns true; metricCount never exceeds MAX_METRICS.
C3_AddMetricCapacity ==
    /\ metricCount <= MAX_METRICS
    /\ last.op = "addMetric" =>
         IF Len(pre.batchMetrics) = MAX_METRICS
         THEN last.ret = FALSE /\ batchMetrics = pre.batchMetrics
         ELSE last.ret = TRUE /\ batchMetrics = Append(pre.batchMetrics, last.arg)

C3_Witness ==
    last.op = "addMetric" /\ last.ret = FALSE /\ Len(pre.batchMetrics) = MAX_METRICS

\* C4: sendMetrics on an empty metric buffer is a no-op that reports
\* success: it returns true, makes no POST and records no error.
C4_EmptySendSucceeds ==
    (last.op = "sendMetrics" /\ pre.batchMetrics = <<>>) =>
        (last.ret = TRUE /\ last.posts = <<>> /\ ~last.errSet)

-----------------------------------------------------------------------------
(* The span store and the trace export.                                    *)

\* The spans of the payloads of the newest call that got a 2xx status.
ExportedUids ==
    UNION {{last.posts[k].items[j].uid : j \in 1..Len(last.posts[k].items)} :
           k \in {k \in 1..Len(last.posts) : Is2xx(last.posts[k].code)}}

StoredUids(sps) == {sps[i].uid : i \in 1..Len(sps)}

\* C5: a sendTraces that fails (its POST fails, or the payload cannot be
\* built) leaves every stored span, its end timestamp included, as it was
\* before the call: the mark 1 is written only after a successful send.
C5_FailedSendLeavesSpans ==
    (last.op = "sendTraces" /\ last.ret = FALSE) => spans = pre.spans

\* C6: every span serialized into a trace payload whose POST returned 2xx
\* is out of the store when the sendTraces that sent it returns.
C6_ExportedSpansRemoved ==
    last.op = "sendTraces" =>
        /\ ExportedUids \subseteq StoredUids(pre.spans)
        /\ ExportedUids \cap StoredUids(spans) = {}
        /\ spanCount <= Len(pre.spans) - Cardinality(ExportedUids)

C6_Witness ==
    /\ last.op = "sendTraces"
    /\ ExportedUids # {}
    /\ spanCount > 0

\* C7: every span a sendTraces call takes out of the store was in a payload
\* of that call whose POST returned 2xx, whatever sends failed before and
\* in whatever order the spans completed.
C7_RemovedOnlyAfterExport ==
    last.op = "sendTraces" =>
        (StoredUids(pre.spans) \ StoredUids(spans)) \subseteq ExportedUids

\* The newest call was endSpan with a non-zero id whose span (the first
\* stored span with that id) was Active.
EndedActiveSpan ==
    /\ last.op = "endSpan"
    /\ last.arg # 0
    /\ FindSpan(pre.spans, last.arg) # 0
    /\ pre.spans[FindSpan(pre.spans, last.arg)].isActive

\* C8: endSpan on an Active span returns true and ends it, changing nothing
\* else; a second endSpan with the same id, right after, returns false and
\* leaves the end timestamp and every other field of every span as it is.
C8_EndSpanTwice ==
    /\ [](EndedActiveSpan =>
            /\ last.ret = TRUE
            /\ ~spans[FindSpan(pre.spans, last.arg)].isActive
            /\ spans = [pre.spans EXCEPT
                          ![FindSpan(pre.spans, last.arg)].isActive = FALSE,
                          ![FindSpan(pre.spans, last.arg)].endTimeNanos =
                              spans[FindSpan(pre.spans, last.arg)].endTimeNanos])
    /\ [][(EndedActiveSpan /\ last'.op = "endSpan" /\ last'.arg = last.arg) =>
            (last'.ret = FALSE /\ spans' = spans)]_vars

C8_Witness ==
    /\ last.op = "endSpan"
    /\ last.ret = FALSE
    /\ FindSpan(pre.spans, last.arg) # 0
    /\ ~pre.spans[FindSpan(pre.spans, last.arg)].isActive
    /\ pre.spans[FindSpan(pre.spans, last.arg)].endTimeNanos > PendingRemoval
    /\ spans = pre.spans

\* C9: a startSpan that returns an id, followed at once by endSpan on that
\* id, leaves exactly one span more in the store than before the startSpan,
\* and that span is ended with an end timestamp strictly greater than its
\* start timestamp.
C9_StartThenEnd ==
    [][(last.op = "startSpan" /\ last.ret # 0
        /\ last'.op = "endSpan" /\ last'.arg = last.ret) =>
            /\ last'.ret = TRUE
            /\ Len(spans') = Len(pre.spans) + 1
            /\ ~spans'[Len(spans')].isActive
            /\ spans'[Len(spans')].endTimeNanos > spans'[Len(spans')].startTimeNanos]_vars

\* The newest call was addSpanAttribute with a non-zero id whose span was
\* Active.
AddedToActiveSpan ==
    /\ last.op = "addSpanAttribute"
    /\ last.arg.spanId # 0
    /\ FindSpan(pre.spans, last.arg.spanId) # 0
    /\ pre.spans[FindSpan(pre.spans, last.arg.spanId)].isActive

\* C10: on an Active span addSpanAttribute (either overload) appends the
\* attribute and returns true while the span has fewer than MAX_SPAN_ATTRS
\* attributes, and returns false with the store unchanged once it has
\* MAX_SPAN_ATTRS; no span ever holds more than MAX_SPAN_ATTRS attributes.
C10_AttributeCapacity ==
    /\ \A i \in 1..Len(spans) : Len(spans[i].attributes) <= MAX_SPAN_ATTRS
    /\ AddedToActiveSpan =>
         IF Len(pre.spans[FindSpan(pre.spans, last.arg.spanId)].attributes) < MAX_SPAN_ATTRS
         THEN /\ last.ret = TRUE
              /\ spans = [pre.spans EXCEPT
                            ![FindSpan(pre.spans, last.arg.spanId)].attributes =
                                Append(@, last.arg.attr)]
         ELSE /\ last.ret = FALSE
              /\ spans = pre.spans

C10_Witness ==
    /\ AddedToActiveSpan
    /\ last.ret = FALSE
    /\ Len(spans[1].attributes) = MAX_SPAN_ATTRS
    /\ spans[1].attributes[1].isString
    /\ ~spans[1].attributes[2].isString
    /\ spans[1].attributes[MAX_SPAN_ATTRS].isString

\* The newest call was addSpanAttribute with a non-zero id whose span (the
\* first stored span with that id) was not Active.
AddedToEndedSpan ==
    /\ last.op = "addSpanAttribute"
    /\ last.arg.spanId # 0
    /\ FindSpan(pre.spans, last.arg.spanId) # 0
    /\ ~pre.spans[FindSpan(pre.spans, last.arg.spanId)].isActive

\* C11: addSpanAttribute on a span that is not Active returns false and
\* leaves the store, that span's attribute list included, as it was; no
\* call changes the attribute list of a span that was not Active before it.
C11_NoAttributeOnEndedSpan ==
    /\ AddedToEndedSpan => (last.ret = FALSE /\ spans = pre.spans)
    /\ \A i \in 1..Len(pre.spans), j \in 1..Len(spans) :
          (pre.spans[i].uid = spans[j].uid
           /\ pre.spans[i].attributes # spans[j].attributes) =>
              (pre.spans[i].isActive /\ last.op = "addSpanAttribute")

C11_Witness ==
    /\ AddedToEndedSpan
    /\ last.ret = FALSE
    /\ Len(spans[1].attributes) \in 1..(MAX_SPAN_ATTRS - 1)
    /\ spans[1].endTimeNanos > PendingRemoval

\* No stored span has this id, or the id is 0.
NoSuchSpan(sps, spanId) ==
    spanId = 0 \/ \A i \in 1..Len(sps) : sps[i].spanId # spanId

\* C12: endSpan and addSpanAttribute with id 0, or with an id no stored
\* span has (the id of a span that was exported and removed is one), return
\* false and leave the span store as it was.
C12_UnknownSpanRejected ==
    /\ (last.op = "endSpan" /\ NoSuchSpan(pre.spans, last.arg)) =>
          (last.ret = FALSE /\ spans = pre.spans
           /\ activeSpanCount = pre.activeSpanCount)
    /\ (last.op = "addSpanAttribute" /\ NoSuchSpan(pre.spans, last.arg.spanId)) =>
          (last.ret = FALSE /\ spans = pre.spans
           /\ activeSpanCount = pre.activeSpanCount)

\* endSpan with the id of the operation's span after that span was started
\* (the id generator has run), exported and removed.
C12_Witness ==
    /\ last.op = "endSpan"
    /\ last.arg = IdFromBytes(0, OperationBytes)
    /\ last.ret = FALSE
    /\ randomSeeded
    /\ pre.spans = <<>>

\* C13: every stored span is Active (isActive, end timestamp 0), Completed
\* (not isActive, end timestamp above 1) or PendingRemoval (not isActive,
\* end timestamp 1), so that isActive holds exactly when the end timestamp
\* is 0, whatever the time provider returns.
C13_SpanStates ==
    \A i \in 1..Len(spans) :
        \/ spans[i].isActive /\ spans[i].endTimeNanos = 0
        \/ ~spans[i].isActive /\ spans[i].endTimeNanos > PendingRemoval
        \/ ~spans[i].isActive /\ spans[i].endTimeNanos = PendingRemoval

-----------------------------------------------------------------------------
(* The capacity policy.                                                    *)

\* The newest call was startSpan on a store at or above 75% of MAX_SPANS.
StartedAtHighWater ==
    last.op = "startSpan" /\ Len(pre.spans) >= (MAX_SPANS * 3) \div 4

\* The spans createTracePayload renders from a store: the first
\* MAX_SPANS_PER_BATCH completed ones at most, as the payload reports them.
FirstBatch(sps) ==
    SubSeq(SelectSeq(sps, IsCompleted), 1,
           Min(CompletedCount(sps), MAX_SPANS_PER_BATCH))

C15_StartSpanCapacity ==
    /\ spanCount <= MAX_SPANS
    /\ last.op = "startSpan" =>
         \/ /\ last.ret = 0
            /\ spanCount = MAX_SPANS
            /\ StoredUids(spans) \subseteq StoredUids(pre.spans)
         \/ /\ last.ret # 0
            /\ spanCount >= 1
            /\ spans[spanCount].spanId = last.ret
            /\ spans[spanCount].isActive
            /\ spans[spanCount].endTimeNanos = 0
            /\ spans[spanCount].attributes = <<>>
            /\ spans[spanCount].traceId = pre.currentTraceId
            /\ spans[spanCount].parentSpanId = last.arg.parentSpanId
            /\ (Len(pre.spans) < (MAX_SPANS * 3) \div 4 =>
                  SubSeq(spans, 1, spanCount - 1) = pre.spans)

ActiveCount(sps) == Cardinality({i \in 1..Len(sps) : sps[i].isActive})

\* The newest call was a startSpan whose cleanup still found the store at
\* or above 60% of MAX_SPANS after its export attempt: the Active spans
\* alone fill 60%, or the first POST failed and so removed nothing.
CompactedByCleanup ==
    /\ StartedAtHighWater
    /\ \/ ActiveCount(pre.spans) >= (MAX_SPANS * 60) \div 100
       \/ Len(last.posts) >= 1 /\ ~Is2xx(last.posts[1].code)

\* C16: when the store is still at or above 60% occupancy after the export
\* attempt of the cleanup, every span that is not Active is removed,
\* exported or not, the Active spans stay in their order and
\* activeSpanCount is unchanged (the store below 80% after that, so that
\* startSpan then adds its own span and counts it).
C16_AggressiveCompaction ==
    (CompactedByCleanup /\ ActiveCount(pre.spans) < (MAX_SPANS * 80) \div 100) =>
        /\ spanCount = ActiveCount(pre.spans) + 1
        /\ SubSeq(spans, 1, spanCount - 1) = SelectSeq(pre.spans, IsActiveSpan)
        /\ spans[spanCount].spanId = last.ret
        /\ activeSpanCount = U8(pre.activeSpanCount + 1)

C16_Witness ==
    /\ CompactedByCleanup
    /\ Len(last.posts) >= 1
    /\ ~Is2xx(last.posts[1].code)
    /\ CompletedCount(pre.spans) > MAX_SPANS_PER_BATCH
    /\ ActiveCount(pre.spans) >= 2
    /\ spanCount = ActiveCount(pre.spans) + 1

\* The Active spans of the store before the newest call, oldest first, and
\* how many of them a force-close down to 50% of MAX_SPANS ends.
ActiveBefore == SelectSeq(pre.spans, IsActiveSpan)
ForcedCount == Len(ActiveBefore) - MAX_SPANS \div 2

\* The newest call was a startSpan whose cleanup found 80% of MAX_SPANS or
\* more Active spans (which the compaction keeps).
ForceClosedByCleanup ==
    /\ StartedAtHighWater
    /\ Len(ActiveBefore) >= (MAX_SPANS * 80) \div 100

\* The index of the first POST of the export that follows the force-close.
ForcedPost == IF CompletedCount(pre.spans) > 0 THEN 2 ELSE 1

\* C17: when 80% of MAX_SPANS or more spans are left after the compaction,
\* the cleanup ends the oldest Active spans, in store order and with the
\* current time as end timestamp, until 50% of MAX_SPANS spans are left
\* Active, and attempts an export at once: its first POST carries the first
\* batch of the force-closed spans; the spans left Active are untouched.
C17_ForceCloseOldest ==
    ForceClosedByCleanup =>
        /\ Len(last.posts) >= ForcedPost
        /\ Len(last.posts[ForcedPost].items) = Min(ForcedCount, MAX_SPANS_PER_BATCH)
        /\ \A j \in 1..Len(last.posts[ForcedPost].items) :
              /\ last.posts[ForcedPost].items[j].uid = ActiveBefore[j].uid
              /\ last.posts[ForcedPost].items[j].spanId = ActiveBefore[j].spanId
              /\ ~last.posts[ForcedPost].items[j].isActive
              /\ last.posts[ForcedPost].items[j].endTimeUnixNano =
                    spans[spanCount].startTimeNanos
        /\ spanCount >= MAX_SPANS \div 2 + 1
        /\ SubSeq(spans, spanCount - MAX_SPANS \div 2, spanCount - 1) =
              SubSeq(ActiveBefore, ForcedCount + 1, Len(ActiveBefore))
        /\ \A i \in 1..(spanCount - MAX_SPANS \div 2 - 1) :
              /\ ~spans[i].isActive
              /\ \E j \in 1..ForcedCount : ActiveBefore[j].uid = spans[i].uid
        /\ activeSpanCount = U8(pre.activeSpanCount - ForcedCount + 1)

C17_Witness ==
    /\ ForceClosedByCleanup
    /\ Len(last.posts) >= ForcedPost
    /\ Is2xx(last.posts[ForcedPost].code)
    /\ spanCount = MAX_SPANS \div 2 + 1

-----------------------------------------------------------------------------
(* The drain of sendTraces.                                                *)

\* The export cycles of the last call: one POST each.
DrainCycles == Len(last.posts)

SuccessfulCycles ==
    Cardinality({i \in 1..Len(last.posts) : Is2xx(last.posts[i].code)})

\* C18: sendTraces terminates: each cycle POSTs at least one span, each
\* cycle but the last one was successful, each successful cycle leaves
\* fewer Completed spans in the store, and so a call makes at most as many
\* cycles as the store had Completed spans.
C18_DrainTerminates ==
    last.op = "sendTraces" =>
        /\ DrainCycles <= CompletedCount(pre.spans)
        /\ CompletedCount(spans) + SuccessfulCycles <= CompletedCount(pre.spans)
        /\ \A i \in 1..DrainCycles :
              /\ Len(last.posts[i].items) >= 1
              /\ i < DrainCycles => Is2xx(last.posts[i].code)

C18_Witness ==
    /\ last.op = "sendTraces"
    /\ CompletedCount(pre.spans) > MAX_SPANS_PER_BATCH
    /\ DrainCycles = 2
    /\ SuccessfulCycles = 2
    /\ CompletedCount(spans) = 0

\* C19: sendTraces repeats the cycle until no Completed span is left or a
\* send fails: it returns true only with no Completed span left in the
\* store, and it returns false when any of its cycles, a later one
\* included, got a failure status.
C19_ResultReflectsDrain ==
    last.op = "sendTraces" =>
        /\ last.ret = TRUE => CompletedCount(spans) = 0
        /\ SuccessfulCycles < DrainCycles => last.ret = FALSE
        /\ SuccessfulCycles = DrainCycles => CompletedCount(spans) = 0

-----------------------------------------------------------------------------
(* The combined export.                                                    *)

PostsOfKind(kind) ==
    {i \in 1..Len(last.posts) : last.posts[i].kind = kind}

\* The metrics half succeeded: nothing was queued, or the queue was POSTed
\* with a 2xx status.
MetricsOutcome ==
    \/ Len(pre.batchMetrics) = 0
    \/ \E i \in PostsOfKind("metrics") : Is2xx(last.posts[i].code)

\* The traces half succeeded: no span was Completed, or sendTraces
\* returned true, which it does when its first POST got a 2xx status.
TracesOutcome ==
    \/ CompletedCount(pre.spans) = 0
    \/ \E i \in PostsOfKind("traces") :
          /\ Is2xx(last.posts[i].code)
          /\ \A j \in PostsOfKind("traces") : i <= j

\* C20: sendMetricsAndTraces exports the metrics and then the traces, a
\* failed metrics half does not keep the Completed spans from being sent,
\* and the call returns true exactly when both halves succeeded, a half
\* with nothing to send counting as a success.
C20_ExportAllAggregates ==
    last.op = "sendMetricsAndTraces" =>
        /\ last.ret = (MetricsOutcome /\ TracesOutcome)
        /\ \A i \in PostsOfKind("metrics"), j \in PostsOfKind("traces") : i < j
        /\ (~MetricsOutcome /\ CompletedCount(pre.spans) > 0) =>
              PostsOfKind("traces") # {}

-----------------------------------------------------------------------------
(* The encoding buffer.                                                    *)

\* The object the newest call began with.
PreObj == [Obj EXCEPT !.batchMetrics = pre.batchMetrics, !.spans = pre.spans]

\* C21: a render never moves the write position to the end of the
\* 4096-byte buffer or past it; a document that does not fit with its
\* terminator makes the render fail, and then sendMetrics / sendTraces
\* return false without a POST; a POST is only made of a whole document.
C21_NoBufferOverflow ==
    /\ last.op = "sendMetrics" /\ Len(pre.batchMetrics) > 0 =>
          /\ createBatchPayload(PreObj) < JsonBufferSize
          /\ BatchDocumentLength(PreObj) >= JsonBufferSize =>
                /\ createBatchPayload(PreObj) < 0
                /\ last.ret = FALSE
                /\ last.posts = <<>>
          /\ last.posts # <<>> =>
                createBatchPayload(PreObj) = BatchDocumentLength(PreObj)
    /\ last.op = "sendTraces" /\ CompletedCount(pre.spans) > 0 =>
          /\ TraceDocumentLength(PreObj) >= JsonBufferSize =>
                /\ ~createTracePayload(PreObj).ok
                /\ last.ret = FALSE
                /\ last.posts = <<>>
          /\ last.posts # <<>> =>
                /\ createTracePayload(PreObj).ok
                /\ TraceDocumentLength(PreObj) < JsonBufferSize

C21_Witness ==
    /\ last.op = "sendTraces"
    /\ CompletedCount(pre.spans) > 0
    /\ TraceDocumentLength(PreObj) = JsonBufferSize
    /\ last.ret = FALSE
    /\ last.posts = <<>>

\* C22: over a transport that always succeeds, a Completed span does not
\* stay in the store for ever: when its batch does not fit the buffer the
\* batch is shrunk and sent again, until the span is exported and removed.
C22_OverflowShrinksBatch ==
    (CompletedCount(spans) > 0) ~> (CompletedCount(spans) = 0)

-----------------------------------------------------------------------------
(* The content of a trace payload.                                         *)

\* C23: every trace payload that is POSTed carries at least one span and at
\* most MAX_SPANS_PER_BATCH, each of them not Active and with an end
\* timestamp other than 0.
C23_PayloadHoldsCompletedSpans ==
    \A i \in PostsOfKind("traces") :
        /\ Len(last.posts[i].items) >= 1
        /\ Len(last.posts[i].items) <= MAX_SPANS_PER_BATCH
        /\ \A j \in 1..Len(last.posts[i].items) :
              /\ ~last.posts[i].items[j].isActive
              /\ last.posts[i].items[j].endTimeUnixNano # 0

C23_Witness ==
    /\ last.op = "sendTraces"
    /\ Len(last.posts) >= 1
    /\ Len(last.posts[1].items) = MAX_SPANS_PER_BATCH
    /\ Len(pre.spans) > MAX_SPANS_PER_BATCH
    /\ \E k \in 1..(Len(pre.spans) - 1) : pre.spans[k].isActive

-----------------------------------------------------------------------------
(* The order of export.                                                    *)

UidSeq(sps) == [i \in 1..Len(sps) |-> sps[i].uid]

\* The spans Completed when the newest call began, in store order.
CompletedBefore == SelectSeq(pre.spans, IsCompleted)

StillStored(sp) == sp.uid \in StoredUids(spans)

\* The batches of the newest call that carry the span.
BatchesOf(uid) ==
    {i \in PostsOfKind("traces") :
        \E j \in 1..Len(last.posts[i].items) : last.posts[i].items[j].uid = uid}

\* C24: a metrics payload carries the metrics in insertion order; the
\* first trace payload of a sendTraces call carries the first Completed
\* spans in store order; when Completed span A precedes Completed span B
\* in the store and a batch of the drain carries B, that batch or an
\* earlier one carries A; and the spans left in the store keep their
\* relative order.
C24_ExportOrder ==
    /\ last.op = "sendMetrics" =>
          \A i \in PostsOfKind("metrics") : last.posts[i].items = pre.batchMetrics
    /\ last.op = "sendTraces" =>
          /\ \A i \in PostsOfKind("traces") :
                i = 1 => UidSeq(last.posts[i].items)
                         = SubSeq(UidSeq(CompletedBefore), 1, Len(last.posts[i].items))
          /\ \A a \in 1..Len(CompletedBefore), b \in 1..Len(CompletedBefore) :
                a < b =>
                    \A k \in BatchesOf(CompletedBefore[b].uid) :
                        \E h \in BatchesOf(CompletedBefore[a].uid) : h <= k
          /\ UidSeq(spans) = UidSeq(SelectSeq(pre.spans, StillStored))

-----------------------------------------------------------------------------
(* Trace ids.                                                              *)

\* C25: the span startSpan creates carries the current trace id of that
\* moment; startNewTrace changes the current trace id and nothing else of
\* the object; and the spans already stored keep their trace id through
\* every call.
C25_TraceIdCopiedAtCreation ==
    /\ (last.op = "startSpan" /\ spanCount = Len(pre.spans) + 1) =>
          spans[spanCount].traceId = pre.currentTraceId
    /\ last.op = "startNewTrace" =>
          /\ spans = pre.spans
          /\ batchMetrics = pre.batchMetrics
          /\ activeSpanCount = pre.activeSpanCount
          /\ metricsEndpoint = pre.metricsEndpoint
          /\ tracesEndpoint = pre.tracesEndpoint
          /\ ~last.errSet
    /\ \A i \in 1..Len(spans), j \in 1..Len(pre.spans) :
          spans[i].uid = pre.spans[j].uid => spans[i].traceId = pre.spans[j].traceId

\* A span started after startNewTrace, next to one started before it.
C25_Witness ==
    /\ last.op = "startSpan"
    /\ spanCount = Len(pre.spans) + 1
    /\ spanCount >= 2
    /\ spans[spanCount].traceId = currentTraceId
    /\ spans[1].traceId # currentTraceId

-----------------------------------------------------------------------------
(* The HTTP status.                                                        *)

\* What one call does to lastHttpCode and how it reads the status of its
\* POST.
StatusStep ==
    /\ last'.posts = <<>> => lastHttpCode' = lastHttpCode
    /\ last'.posts # <<>> => lastHttpCode' = last'.posts[Len(last'.posts)].code
    /\ (last'.op \in {"sendMetrics", "sendTraces"} /\ Len(last'.posts) = 1) =>
          last'.ret = (last'.posts[1].code \in 200..299)

\* C26: a POST counts as a success exactly when its status is in 200..299,
\* and getLastHttpCode (lastHttpCode) is at all times the status of the
\* most recent POST: a call that POSTs leaves the status of its last POST
\* there and a call that does not POST leaves it as it was.
C26_LastHttpCode == [][StatusStep]_vars

-----------------------------------------------------------------------------
(* Span ids.                                                               *)

\* C27: the spans in the store have span ids that differ from each other
\* and from 0, so that an id names one stored span.
C27_SpanIdsDistinct ==
    /\ \A i \in 1..Len(spans) : spans[i].spanId # 0
    /\ \A i \in 1..Len(spans), j \in 1..Len(spans) :
          i # j => spans[i].spanId # spans[j].spanId

-----------------------------------------------------------------------------
(* The last error.                                                         *)

ExportOperations ==
    {"sendMetrics", "sendTraces", "sendMetricsAndTraces",
     "safeFlushTraces", "safeSendMetricsAndTraces"}

\* C28: an export operation that returns false has assigned the last error
\* message during that call; the caller never reads a message an earlier
\* operation left.
C28_FreshLastError ==
    (last.op \in ExportOperations /\ last.ret = FALSE) => last.errSet

-----------------------------------------------------------------------------
(* begin.                                                                  *)

TraceEndpointGiven ==
    last.arg.traceEndpoint # NullPtr /\ last.arg.traceEndpoint # ""

\* C29: after begin the traces endpoint is the supplied trace endpoint when
\* that is neither null nor empty and the metrics endpoint otherwise, and
\* the metric buffer and the span store are empty with no span active.
C29_BeginConfigures ==
    last.op = "begin" =>
        /\ metricsEndpoint = last.arg.metEndpoint
        /\ tracesEndpoint = IF TraceEndpointGiven
                            THEN last.arg.traceEndpoint ELSE metricsEndpoint
        /\ Len(batchMetrics) = 0
        /\ Len(spans) = 0
        /\ activeSpanCount = 0

\* begin with an empty trace endpoint on an object that holds a metric and
\* an open span.
C29_Witness ==
    /\ last.op = "begin"
    /\ last.arg.traceEndpoint = ""
    /\ last.arg.metEndpoint = OTEL_METRICS_URL
    /\ tracesEndpoint = OTEL_METRICS_URL
    /\ Len(pre.batchMetrics) > 0
    /\ Len(pre.spans) > 0
    /\ pre.activeSpanCount > 0

-----------------------------------------------------------------------------
(* The end time of a transmitted span.                                     *)

\* The end time the span with this uid had when the call began.
EndTimeBefore(uid) ==
    pre.spans[CHOOSE k \in 1..Len(pre.spans) : pre.spans[k].uid = uid].endTimeNanos

\* Every item of every trace payload of the last call carries the end time
\* its span had in the store when the call began.
ItemsCarryStoredEndTime ==
    \A i \in PostsOfKind("traces") :
        \A j \in 1..Len(last.posts[i].items) :
            last.posts[i].items[j].endTimeUnixNano =
                EndTimeBefore(last.posts[i].items[j].uid)

\* C30: the endTimeUnixNano written for a span is the end time recorded when
\* the span was closed and never the removal mark 1, also when the span is
\* sent again after a failed attempt.
C30_EndTimeIsCloseTime ==
    /\ ItemsCarryStoredEndTime
    /\ \A i \in PostsOfKind("traces") :
          \A j \in 1..Len(last.posts[i].items) :
              last.posts[i].items[j].endTimeUnixNano # PendingRemoval

-----------------------------------------------------------------------------
(* The density cap.                                                        *)

\* floor(average) of the attributes per completed span.
FloorAverage == last.arg.totalAttributes \div last.arg.completedSpanCount

\* The average exceeds 15.
AverageAbove15 == last.arg.totalAttributes > 15 * last.arg.completedSpanCount

\* C31: when the average attribute count per completed span exceeds 15 the
\* number of spans included is min(min(completed, 15), max(3, 30 / floor(
\* average))); when it is 15 or less the number is min(completed, 15).
C31_DensityCap ==
    last.op = "spansToSend" =>
        last.ret =
            IF AverageAbove15
            THEN Min(Min(last.arg.completedSpanCount, 15),
                     Max(3, 30 \div FloorAverage))
            ELSE Min(last.arg.completedSpanCount, 15)

\* More than three completed spans with an average above 15: the cap
\* takes effect.
C31_Witness ==
    /\ last.op = "spansToSend"
    /\ AverageAbove15
    /\ last.arg.completedSpanCount > 3
    /\ last.ret = 3

\* No stored span has more attributes than addSpanAttribute accepts, and
\* the average over the completed spans is at most 15.
DensityAtMost15 ==
    /\ \A i \in 1..Len(spans) : Len(spans[i].attributes) <= MAX_SPAN_ATTRS
    /\ TotalAttributes(spans, 1) <= 15 * CompletedCount(spans)

\* The first trace payload of a sendTraces call carries min(completed, 15)
\* spans.
FullBatch ==
    (last.op = "sendTraces" /\ Len(last.posts) >= 1) =>
        Len(last.posts[1].items) = Min(CompletedCount(pre.spans), MAX_SPANS_PER_BATCH)

\* The spans of a store that sendTraces' cleanup loop gives spanId 0.
CleanupMarked(sps) ==
    {sps[i].uid : i \in {i \in 1..Len(sps) :
                            sps[i].spanId # MarkForCleanup(sps, 1, 0)[i].spanId}}

\* A payload built from this state marks the spans that the cleanup loop
\* of sendTraces marks after it.
SameMarks ==
    \A payload \in {createTracePayload(Obj)} :
        payload.ok =>
            /\ Len(payload.items) = Min(CompletedCount(spans), MAX_SPANS_PER_BATCH)
            /\ {payload.items[j].uid : j \in 1..Len(payload.items)}
                   = CleanupMarked(payload.o.spans)

\* C32: the average attribute count per completed span never exceeds 15, so
\* every trace batch holds min(completed, 15) spans and createTracePayload
\* marks the spans that sendTraces then marks for cleanup.
C32_DensityCapNeverApplies ==
    /\ DensityAtMost15
    /\ FullBatch
    /\ SameMarks

\* Two completed spans with MAX_SPAN_ATTRS attributes each have been sent
\* in one payload.
C32_Witness ==
    /\ last.op = "sendTraces"
    /\ Len(last.posts) = 1
    /\ Len(last.posts[1].items) = 2
    /\ \A j \in 1..2 : Len(last.posts[1].items[j].attributes) = MAX_SPAN_ATTRS

-----------------------------------------------------------------------------
(* The count of active spans.                                              *)

ActiveStored == Cardinality({i \in 1..Len(spans) : spans[i].isActive})

\* C33: activeSpanCount is the number of stored spans whose isActive flag is
\* set and is at most spanCount, so the total getSpanStats reports is its
\* active count plus its completed count, without wrap-around.
C33_ActiveCountExact ==
    /\ activeSpanCount = ActiveStored
    /\ activeSpanCount <= spanCount
    /\ spanCount = activeSpanCount + getSpanStatsCompleted(Obj)

\* A startSpan whose cleanup force-closed spans and left both active and
\* ended spans in the store.
C33_Witness ==
    /\ ForceClosedByCleanup
    /\ activeSpanCount > 0
    /\ activeSpanCount < spanCount

-----------------------------------------------------------------------------
(* The capacity of the span store.                                         *)

\* The most spans the store holds: the force-close threshold and the span
\* the startSpan that ran it appends.
MostStored == (MAX_SPANS * 80) \div 100 + 1

\* C34: the cleanup of startSpan keeps spanCount at or below 41, so no
\* startSpan finds MAX_SPANS spans at its capacity check: every startSpan
\* stores a span and returns its id.
C34_CapacityNeverReached ==
    /\ spanCount <= MostStored
    /\ last.op = "startSpan" =>
          /\ last.ret # 0
          /\ spanCount >= 1
          /\ spans[spanCount].spanId = last.ret
          /\ spans[spanCount].isActive

\* A startSpan on a store of 41 spans.
C34_Witness ==
    /\ last.op = "startSpan"
    /\ Len(pre.spans) = MostStored
    /\ last.ret # 0

-----------------------------------------------------------------------------
(* What endSpan leaves alone.                                              *)

\* The stored spans with this id that were active before the call.
EndedAt(spanId) ==
    {k \in 1..Len(pre.spans) : pre.spans[k].spanId = spanId /\ pre.spans[k].isActive}

\* C35: an endSpan that returns true changes the isActive flag and the end
\* timestamp of one span and takes one off activeSpanCount; the number and
\* order of the spans, every other field of that span, every other span,
\* the metric buffer and the current trace id stay as they were.
C35_EndSpanFrame ==
    (last.op = "endSpan" /\ last.ret = TRUE) =>
        /\ \E k \in EndedAt(last.arg) :
              /\ ~spans[k].isActive
              /\ spans = [pre.spans EXCEPT ![k].isActive = FALSE,
                                           ![k].endTimeNanos = spans[k].endTimeNanos]
        /\ activeSpanCount = pre.activeSpanCount - 1
        /\ spanCount = Len(pre.spans)
        /\ batchMetrics = pre.batchMetrics
        /\ currentTraceId = pre.currentTraceId

\* A span with attributes has been ended while an older span is stored.
C35_Witness ==
    /\ last.op = "endSpan"
    /\ last.ret = TRUE
    /\ Len(spans) = 2
    /\ spans[2].spanId = last.arg
    /\ Len(spans[2].attributes) > 0
    /\ Len(spans[1].attributes) > 0

-----------------------------------------------------------------------------
(* The seeding of the random generator.                                    *)

\* At most one call of a seed provider has been made, it was made before
\* any random byte was drawn and no byte was drawn without it.
SeededOnceBeforeDraw ==
    /\ Len(seedCalls) <= 1
    /\ randomDrawn => Len(seedCalls) = 1
    /\ \A i \in 1..Len(seedCalls) : ~seedCalls[i].afterDraw

\* Once an identifier has been generated no provider is called, whatever
\* provider is installed.
NoLaterSeed == randomDrawn => seedCalls' = seedCalls

\* The first identifier calls the provider installed at that moment; until
\* then none is called.
SeedIsLazy ==
    /\ ~randomDrawn /\ ~randomDrawn' => seedCalls' = <<>>
    /\ ~randomDrawn /\ randomDrawn' =>
          seedCalls' = <<[provider |-> randomSeedProvider, afterDraw |-> FALSE]>>

\* C36: the seed provider is called exactly once, at the first identifier
\* and before its first random byte, and never again; a provider installed
\* after the first identifier was generated is never called.
C36_SeededOnceLazily ==
    /\ []SeededOnceBeforeDraw
    /\ [][NoLaterSeed /\ SeedIsLazy]_vars

\* An identifier has been generated after a provider was installed that is
\* not the one that seeded the generator.
C36_Witness ==
    /\ last.op = "startSpan"
    /\ last.ret # 0
    /\ Len(seedCalls) = 1
    /\ seedCalls[1].provider = defaultRandomSeedProvider
    /\ randomSeedProvider \in CustomSeedProviders

-----------------------------------------------------------------------------
(* sendTraces without an endpoint.                                         *)

NoTracesEndpointBefore ==
    pre.tracesEndpoint = NullPtr \/ pre.tracesEndpoint = ""

CompletedBeforeCall ==
    Cardinality({i \in 1..Len(pre.spans) :
                    ~pre.spans[i].isActive /\ pre.spans[i].endTimeNanos > 0})

\* C37: sendTraces with a completed span and a null or empty traces
\* endpoint returns false with the last error "No endpoint specified",
\* makes no POST and leaves the span store as it was; with no completed
\* span it returns true without a POST, whatever the endpoint.
C37_NoEndpoint ==
    last.op = "sendTraces" =>
        /\ (CompletedBeforeCall > 0 /\ NoTracesEndpointBefore) =>
              /\ last.ret = FALSE
              /\ last.errSet
              /\ lastErrorMessage = "No endpoint specified"
              /\ last.posts = <<>>
              /\ spans = pre.spans
        /\ CompletedBeforeCall = 0 =>
              /\ last.ret = TRUE
              /\ ~last.errSet
              /\ last.posts = <<>>
              /\ spans = pre.spans

\* sendTraces refused a completed span for want of an endpoint.
C37_Witness ==
    /\ last.op = "sendTraces"
    /\ CompletedBeforeCall > 0
    /\ NoTracesEndpointBefore
    /\ last.ret = FALSE

\* sendTraces with nothing to send and no endpoint.
C37_WitnessNothingToSend ==
    /\ last.op = "sendTraces"
    /\ CompletedBeforeCall = 0
    /\ NoTracesEndpointBefore
    /\ last.ret = TRUE

-----------------------------------------------------------------------------
(* The HTTP requests of an export.                                         *)

\* The calls on the HTTP client made by the last call come in pairs: each
\* http.begin is followed by an http.end before anything else.
RequestsClosed(calls) ==
    \A i \in 1..Len(calls) :
        calls[i] = "begin" => (i < Len(calls) /\ calls[i + 1] = "end")

MetricsRequestsClosed == last.op = "sendMetrics" => RequestsClosed(last.http)

\* C38: every request an export operation opens with http.begin is closed
\* with http.end before the operation returns, after a 2xx status as well
\* as after a failure, in sendMetrics and in every cycle of sendTraces.
C38_RequestsClosed ==
    last.op \in {"sendMetrics", "sendTraces"} => RequestsClosed(last.http)

====
